---- MODULE Spec2Model ----
(***************************************************************************)
(* Verification model of lisp-rpc: the S-expression tokenizer and parser,  *)
(* the Data layer built on Expr, the IDL struct lowerer and the SpecFile   *)
(* container.                                                              *)
(*                                                                         *)
(* Text is a sequence of one-character strings; a token, a symbol name, a  *)
(* keyword and a string content are such sequences too.  A Result is a     *)
(* record with the field ok; a failed Result carries err, the error kind   *)
(* ("panic" for an index out of bounds or a failed unwrap).                *)
(***************************************************************************)
EXTENDS Integers, Sequences, FiniteSets, TLC

VARIABLES
    mode,       \* which part of the library the behaviour exercises
    parser,     \* the Parser handed to the entry points
    pc,         \* position of the caller in its scenario
    src,        \* Data scenario: the text handed to Data::from_str
    newArgs,    \* Data scenario: the arguments handed to Data::new
    d,          \* Data scenario: Result of Data::from_str / Data::new
    ser,        \* Data scenario: d.to_string()
    d2,         \* Data scenario: Result of Data::from_str(ser)
    getKey,     \* Data scenario: argument of the last get call
    getRes,     \* Data scenario: value returned by the last get call
    rootData,   \* Data scenario: Result of Data::from_root_str(src)
    pieces,     \* reader scenario: the pieces the input text was written from
    input,      \* reader scenario: the bytes handed to the parser
    toks,       \* reader scenario: Result of tokenize
    atom,       \* reader scenario: Result of the reader chosen for the first token
    roots,      \* reader scenario: Result of parse_root
    rootOne,    \* reader scenario: Result of parse_root_one
    queue,      \* stepwise parse: the tokens left in the VecDeque
    frames,     \* stepwise parse: the active calls, the innermost last
    final,      \* stepwise parse: Result of the root parser once it returned
    form,       \* decoder scenario: the Expr handed to a from_expr
    decoded,    \* decoder scenario: Result of that from_expr
    decl,       \* lowering scenario: the declaration Expr
    spec,       \* lowering scenario: Result of DefMsg/DefRPC::from_expr
    gen,        \* lowering scenario: Result of create_gen_structs
    code,       \* lowering scenario: Result of gen_code_with_files
    specs,      \* SpecFile.specs: symbol names of the pushed declarations
    sym_table,  \* SpecFile.sym_table: the recorded symbol names
    calls,      \* history of the symbol names passed to record_one
    lastRes,    \* Result of the last record_one call
    written     \* Result of gen_code_to_file: the contents built for the two files

vars == <<mode, parser, pc, src, newArgs, d, ser, d2, getKey, getRes, rootData,
          pieces, input, toks, atom, roots, rootOne, queue, frames, final,
          form, decoded,
          decl, spec, gen, code, specs, sym_table, calls, lastRes, written>>

dataVars == <<src, newArgs, d, ser, d2, getKey, getRes, rootData>>
stepVars == <<queue, frames, final>>
readVars == <<pieces, input, toks, atom, roots, rootOne, stepVars>>
exprVars == <<form, decoded>>
lowerVars == <<decl, spec, gen, code>>
fileVars == <<specs, sym_table, calls, lastRes, written>>

None == [ok |-> FALSE, err |-> "none"]

Err(kind) == [ok |-> FALSE, err |-> kind]

Ok(v) == [ok |-> TRUE, val |-> v]

(***************************************************************************)
(* Generic sequence helpers                                                *)
(***************************************************************************)
Last(s) == s[Len(s)]

Drop(s, n) == SubSeq(s, n + 1, Len(s))

RECURSIVE Join(_, _)
Join(parts, sep) ==
    IF parts = <<>> THEN <<>>
    ELSE IF Len(parts) = 1 THEN parts[1]
    ELSE parts[1] \o sep \o Join(Tail(parts), sep)

RECURSIVE Concat(_)
Concat(parts) ==
    IF parts = <<>> THEN <<>> ELSE parts[1] \o Concat(Tail(parts))

Contains(s, c) == \E i \in 1..Len(s) : s[i] = c

(***************************************************************************)
(* TypeValue, Atom, Expr                                                   *)
(***************************************************************************)
Symbol(s) == [ty |-> "Symbol", s |-> s]
String(s) == [ty |-> "String", s |-> s]
Keyword(s) == [ty |-> "Keyword", s |-> s]
Number(n) == [ty |-> "Number", n |-> n]

Atom(v) == [tag |-> "Atom", value |-> v]
List(exprs) == [tag |-> "List", exprs |-> exprs]
Quote(e) == [tag |-> "Quote", expr |-> e]

IsKeywordAtom(e) == e.tag = "Atom" /\ e.value.ty = "Keyword"
IsSymbolAtom(e) == e.tag = "Atom" /\ e.value.ty = "Symbol"

(***************************************************************************)
(* Signed 64-bit decimal conversion                                        *)
(***************************************************************************)
DigitChars == <<"0", "1", "2", "3", "4", "5", "6", "7", "8", "9">>

IsDigit(c) == \E i \in 1..10 : DigitChars[i] = c

DigitVal(c) == (CHOOSE i \in 1..10 : DigitChars[i] = c) - 1

RECURSIVE StripZeros(_)
StripZeros(ds) ==
    IF Len(ds) > 1 /\ ds[1] = "0" THEN StripZeros(Tail(ds)) ELSE ds

RECURSIVE DigitsLess(_, _)
DigitsLess(xs, ys) ==
    IF xs = <<>> THEN FALSE
    ELSE IF DigitVal(xs[1]) # DigitVal(ys[1]) THEN DigitVal(xs[1]) < DigitVal(ys[1])
    ELSE DigitsLess(Tail(xs), Tail(ys))

I64MaxDigits ==
    <<"9","2","2","3","3","7","2","0","3","6","8","5","4","7","7","5","8","0","7">>

I64MinDigits ==
    <<"9","2","2","3","3","7","2","0","3","6","8","5","4","7","7","5","8","0","8">>

FitsI64(neg, ds) ==
    LET sig == StripZeros(ds)
        lim == IF neg THEN I64MinDigits ELSE I64MaxDigits
    IN  \/ Len(sig) < Len(lim)
        \/ Len(sig) = Len(lim) /\ (sig = lim \/ DigitsLess(sig, lim))

RECURSIVE DigitsValue(_, _)
DigitsValue(ds, acc) ==
    IF ds = <<>> THEN acc ELSE DigitsValue(Tail(ds), acc * 10 + DigitVal(ds[1]))

\* str::parse::<i64>: an optional sign, one or more digits, no overflow
ParseI64(token) ==
    LET signed == token # <<>> /\ token[1] \in {"-", "+"}
        neg == token # <<>> /\ token[1] = "-"
        ds == IF signed THEN Tail(token) ELSE token
    IN  IF ds = <<>> \/ (\E i \in 1..Len(ds) : ~IsDigit(ds[i])) THEN Err("ParseIntError")
        ELSE IF ~FitsI64(neg, ds) THEN Err("ParseIntError")
        ELSE Ok(IF neg THEN 0 - DigitsValue(ds, 0) ELSE DigitsValue(ds, 0))

RECURSIVE NatToString(_)
NatToString(n) ==
    IF n < 10 THEN <<DigitChars[n + 1]>>
    ELSE NatToString(n \div 10) \o <<DigitChars[(n % 10) + 1]>>

\* i64::to_string
I64ToString(n) == IF n < 0 THEN <<"-">> \o NatToString(0 - n) ELSE NatToString(n)

\* TypeValue::to_string
TypeValue_to_string(v) ==
    CASE v.ty = "Symbol" -> v.s
      [] v.ty = "String" -> <<"\"">> \o v.s \o <<"\"">>
      [] v.ty = "Keyword" -> <<":">> \o v.s
      [] v.ty = "Number" -> I64ToString(v.n)

\* make_symbol without the test for a space
make_symbol_unchecked(s) == Ok(Symbol(s))

\* TypeValue::make_symbol
make_symbol(s) ==
    IF Contains(s, " ") THEN Err("CorruptData") ELSE Ok(Symbol(s))

\* Expr::into_tokens (also the Display of Expr)
RECURSIVE into_tokens(_)
into_tokens(e) ==
    CASE e.tag = "Atom" -> TypeValue_to_string(e.value)
      [] e.tag = "List" ->
            <<"(">> \o Join([i \in 1..Len(e.exprs) |-> into_tokens(e.exprs[i])], <<" ">>)
                    \o <<")">>
      [] e.tag = "Quote" -> <<"'">> \o into_tokens(e.expr)

(***************************************************************************)
(* Tokenizer                                                               *)
(***************************************************************************)
Delimiters == {"(", " ", ")", "'", "\"", ":", "\n"}

RECURSIVE tokenize_loop(_, _, _, _)
tokenize_loop(source, i, cache, res) ==
    IF i > Len(source)
    THEN IF cache # <<>> THEN Append(res, cache) ELSE res
    ELSE LET c == source[i] IN
         IF c \in Delimiters
         THEN LET flushed == IF cache # <<>> THEN Append(res, cache) ELSE res IN
              IF flushed # <<>> /\ Last(flushed) = <<" ">> /\ c = " "
              THEN tokenize_loop(source, i + 1, <<>>, flushed)
              ELSE tokenize_loop(source, i + 1, <<>>, Append(flushed, <<c>>))
         ELSE tokenize_loop(source, i + 1, Append(cache, c), res)

tokenize(source) == tokenize_loop(source, 1, <<>>, <<>>)

(***************************************************************************)
(* Parser readers.  A reader Result is [ok, expr, rest]: the Expr read and  *)
(* the tokens left in the queue.                                           *)
(***************************************************************************)
\* Parser::new / Parser::default and Parser::config_read_number
Parser_new == [read_number_config |-> TRUE]

config_read_number(self, v) == [self EXCEPT !.read_number_config = v]

Parsers == {Parser_new, config_read_number(Parser_new, FALSE)}

Read(e, rest) == [ok |-> TRUE, expr |-> e, rest |-> rest]

\* Parser::read_router: the name of the reader chosen for a token
read_router(token) ==
    CASE token = <<"(">> -> "read_exp"
      [] token = <<"'">> -> "read_quote"
      [] token = <<"\"">> -> "read_string"
      [] token = <<":">> -> "read_keyword"
      [] OTHER -> "read_atom"

\* the atom reader that reads a number whatever the configuration is
read_atom_number_first(self, tokens) ==
    IF tokens = <<>> THEN Err("InvalidToken")
    ELSE LET n == ParseI64(Head(tokens)) IN
         IF n.ok THEN Read(Atom(Number(n.val)), Tail(tokens))
         ELSE Read(Atom(Symbol(Head(tokens))), Tail(tokens))

\* Parser::read_atom
read_atom(self, tokens) ==
    IF tokens = <<>> THEN Err("InvalidToken")
    ELSE LET token == Head(tokens)
             n == ParseI64(token)
         IN  IF self.read_number_config /\ n.ok
             THEN Read(Atom(Number(n.val)), Tail(tokens))
             ELSE Read(Atom(Symbol(token)), Tail(tokens))

\* Parser::read_keyword
read_keyword(tokens) ==
    LET after == IF tokens = <<>> THEN <<>> ELSE Tail(tokens) IN
    IF after = <<>> THEN Err("InvalidToken")
    ELSE Read(Atom(Keyword(Head(after))), Tail(after))

\* the loop of Parser::read_string
RECURSIVE read_string_loop(_, _, _)
read_string_loop(tokens, escape, res) ==
    IF tokens = <<>> THEN Err("InvalidToken")
    ELSE LET this_token == Head(tokens) IN
         IF escape THEN read_string_loop(Tail(tokens), FALSE, res \o this_token)
         ELSE IF this_token = <<"\\">> THEN read_string_loop(Tail(tokens), TRUE, res)
         ELSE IF this_token = <<"\"">> THEN Read(Atom(String(res)), Tail(tokens))
         ELSE read_string_loop(Tail(tokens), FALSE, res \o this_token)

\* Parser::read_string
read_string(tokens) ==
    read_string_loop(IF tokens = <<>> THEN <<>> ELSE Tail(tokens), FALSE, <<>>)

RECURSIVE read_form(_, _)
RECURSIVE read_exp_loop(_, _, _)

\* the loop of Parser::read_exp
read_exp_loop(self, tokens, res) ==
    IF tokens = <<>> THEN Err("InvalidToken")
    ELSE LET t == Head(tokens) IN
         IF t = <<")">> THEN Read(List(res), Tail(tokens))
         ELSE IF t = <<" ">> \/ t = <<"\n">>
         THEN read_exp_loop(self, Tail(tokens), res)
         ELSE LET r == read_form(self, tokens) IN
              IF ~r.ok THEN r
              ELSE read_exp_loop(self, r.rest, Append(res, r.expr))

\* Parser::read_exp
read_exp(self, tokens) ==
    read_exp_loop(self,
                  IF tokens = <<>> THEN <<>> ELSE Tail(tokens), <<>>)

\* Parser::read_quote
read_quote(self, tokens) ==
    IF tokens = <<>> THEN Err("InvalidToken")
    ELSE LET after == Tail(tokens) IN
         IF after = <<>> THEN Err("InvalidToken")
         ELSE LET r == read_form(self, after) IN
              IF ~r.ok THEN r ELSE Read(Quote(r.expr), r.rest)

\* self.read_router(t)?(self, tokens): the reader chosen by the front token
read_form(self, tokens) ==
    LET reader == read_router(Head(tokens)) IN
    CASE reader = "read_exp" -> read_exp(self, tokens)
      [] reader = "read_quote" -> read_quote(self, tokens)
      [] reader = "read_string" -> read_string(tokens)
      [] reader = "read_keyword" -> read_keyword(tokens)
      [] reader = "read_atom" -> read_atom(self, tokens)

\* A byte of the input is a one-character string when it is ASCII and the
\* two hex digits of its value otherwise.  C3 A9 is a two-byte UTF-8
\* character; FF occurs in no UTF-8 text.
NonAsciiBytes == {"C3", "A9", "FF"}

\* String::from_utf8(bytes).is_ok()
RECURSIVE from_utf8_ok(_, _)
from_utf8_ok(bytes, i) ==
    IF i > Len(bytes) THEN TRUE
    ELSE IF bytes[i] \notin NonAsciiBytes THEN from_utf8_ok(bytes, i + 1)
    ELSE IF bytes[i] = "C3" /\ i < Len(bytes) /\ bytes[i + 1] = "A9"
         THEN from_utf8_ok(bytes, i + 2)
         ELSE FALSE

\* Parser::tokenize with the String::from_utf8(cache).unwrap() of each token
tokenize_unwrap(source) ==
    LET res == tokenize(source) IN
    IF \A i \in 1..Len(res) : from_utf8_ok(res[i], 1) THEN Ok(res) ELSE Err("panic")

\* the loop of Parser::parse_root
RECURSIVE parse_root_loop(_, _, _)
parse_root_loop(self, tokens, res) ==
    IF tokens = <<>> THEN Ok(res)
    ELSE LET b == Head(tokens) IN
         IF b = <<"(">>
         THEN LET r == read_exp(self, tokens) IN
              IF ~r.ok THEN r ELSE parse_root_loop(self, r.rest, Append(res, r.expr))
         ELSE IF b \in {<<" ">>, <<"\n">>}
         THEN parse_root_loop(self, Tail(tokens), res)
         ELSE Err("InvalidToken")

\* the loop of Parser::parse_root_one
RECURSIVE parse_root_one_loop(_, _)
parse_root_one_loop(self, tokens) ==
    IF tokens = <<>> THEN Err("InvalidToken")
    ELSE LET b == Head(tokens) IN
         IF b = <<"(">>
         THEN LET r == read_exp(self, tokens) IN
              IF ~r.ok THEN r ELSE Ok(r.expr)
         ELSE IF b \in {<<" ">>, <<"\n">>}
         THEN parse_root_one_loop(self, Tail(tokens))
         ELSE Err("InvalidToken")

\* parse_root that returns after the first form
parse_root_first_only(self, source_code) ==
    LET tokens == tokenize_unwrap(source_code)
        r == parse_root_one_loop(self, tokens.val)
    IN  IF ~tokens.ok THEN tokens ELSE IF ~r.ok THEN r ELSE Ok(<<r.val>>)

\* Parser::parse_root
parse_root(self, source_code) ==
    LET tokens == tokenize_unwrap(source_code) IN
    IF ~tokens.ok THEN tokens ELSE parse_root_loop(self, tokens.val, <<>>)

\* parse_root_one that reads the whole input
parse_root_one_all(self, source_code) ==
    LET r == parse_root(self, source_code) IN
    IF ~r.ok THEN r ELSE IF r.val = <<>> THEN Err("InvalidToken") ELSE Ok(r.val[1])

\* Parser::parse_root_one
parse_root_one(self, source_code) ==
    LET tokens == tokenize_unwrap(source_code) IN
    IF ~tokens.ok THEN tokens ELSE parse_root_one_loop(self, tokens.val)

(***************************************************************************)
(* Data layer                                                              *)
(***************************************************************************)
Some(v) == [some |-> TRUE, val |-> v]

Nothing == [some |-> FALSE]

\* OnceCell::new() and the cell after get_or_init
EmptyCell == [init |-> FALSE]

FullCell(m) == [init |-> TRUE, map |-> m]

ExprData(name, rest_args, inner_map) ==
    [tag |-> "Data", name |-> name, rest_args |-> rest_args, inner_map |-> inner_map]

ListData(inner_data) == [tag |-> "List", inner_data |-> inner_data]

MapData(kwrds, map) == [tag |-> "Map", kwrds |-> kwrds, map |-> map]

Value(v) == [tag |-> "Value", value |-> v]

DataError(msg, err_type) == [tag |-> "Error", msg |-> msg, err_type |-> err_type]

\* HashMap::new() and HashMap::insert: a later insert of a key replaces the value
EmptyTable == [k \in {} |-> None]

Insert(table, k, v) == (k :> v) @@ table

\* DataMap::get
DataMap_get(hash_map, k) ==
    IF k \in DOMAIN hash_map THEN Some(hash_map[k]) ELSE Nothing

\* DataMap::new: the index of a Record, built from its ordered fields
RECURSIVE DataMap_new_loop(_, _, _)
DataMap_new_loop(kv, i, table) ==
    IF i > Len(kv) THEN Ok(table)
    ELSE IF IsKeywordAtom(kv[i].k)
         THEN DataMap_new_loop(kv, i + 1, Insert(table, kv[i].k.value.s, kv[i].v))
         ELSE Err("InvalidInput")

DataMap_new(kv) == DataMap_new_loop(kv, 1, EmptyTable)

RECURSIVE Data_from_expr(_)
RECURSIVE ExprData_rest_loop(_, _, _)
RECURSIVE ListData_loop(_, _, _)
RECURSIVE DataMap_from_exprs_loop(_, _, _)

\* DataMap::from_exprs: array_chunks leaves out a trailing unpaired element
DataMap_from_exprs_loop(exprs, i, table) ==
    IF i + 1 > Len(exprs) THEN Ok(table)
    ELSE IF IsKeywordAtom(exprs[i])
         THEN LET v == Data_from_expr(exprs[i + 1]) IN
              IF ~v.ok THEN v
              ELSE DataMap_from_exprs_loop(exprs, i + 2,
                                           Insert(table, exprs[i].value.s, v.val))
         ELSE Err("InvalidInput")

DataMap_from_exprs(exprs) == DataMap_from_exprs_loop(exprs, 1, EmptyTable)

\* the key positions array_chunks visits in a slice of length n
ChunkStarts(n) == [j \in 1..(n \div 2) |-> 2 * j - 1]

\* MapData::from_expr
MapData_from_expr(expr) ==
    IF expr.tag # "Quote" \/ expr.expr.tag # "List" THEN Err("InvalidInput")
    ELSE LET ee == expr.expr.exprs
             starts == ChunkStarts(Len(ee))
         IN  IF \E j \in 1..Len(starts) : ~IsKeywordAtom(ee[starts[j]])
             THEN Err("InvalidInput")
             ELSE LET kwrds == [j \in 1..Len(starts) |-> ee[starts[j]].value.s]
                      map == DataMap_from_exprs(ee)
                  IN  IF ~map.ok THEN map ELSE Ok(MapData(kwrds, map.val))

\* the loop of ListData::from_expr
ListData_loop(exprs, i, res) ==
    IF i > Len(exprs) THEN Ok(ListData(res))
    ELSE LET v == Data_from_expr(exprs[i]) IN
         IF ~v.ok THEN v ELSE ListData_loop(exprs, i + 1, Append(res, v.val))

\* ListData::from_expr
ListData_from_expr(expr) ==
    IF expr.tag # "Quote" \/ expr.expr.tag # "List" THEN Err("InvalidInput")
    ELSE ListData_loop(expr.expr.exprs, 1, <<>>)

\* the loop of ExprData::from_expr over exprs[1..]
ExprData_rest_loop(exprs, i, rest_a) ==
    IF i + 1 > Len(exprs) THEN Ok(rest_a)
    ELSE IF IsKeywordAtom(exprs[i])
         THEN LET v == Data_from_expr(exprs[i + 1]) IN
              IF ~v.ok THEN v
              ELSE ExprData_rest_loop(exprs, i + 2,
                                      Append(rest_a, [k |-> exprs[i], v |-> v.val]))
         ELSE Err("InvalidInput")

\* ExprData::from_expr
ExprData_from_expr(expr) ==
    IF expr.tag # "List" THEN Err("InvalidInput")
    ELSE LET exprs == expr.exprs IN
         IF Len(exprs) < 1 THEN Err("InvalidInput")
         ELSE IF Len(exprs) % 2 # 1 THEN Err("InvalidInput")
         ELSE IF ~IsSymbolAtom(exprs[1]) THEN Err("InvalidInput")
         ELSE LET rest_a == ExprData_rest_loop(Tail(exprs), 1, <<>>) IN
              IF ~rest_a.ok THEN rest_a
              ELSE Ok(ExprData(exprs[1].value.s, rest_a.val, EmptyCell))

\* Data::from_expr
Data_from_expr(e) ==
    CASE e.tag = "List" -> ExprData_from_expr(e)
      [] e.tag = "Quote" ->
            IF e.expr.tag = "List"
            THEN IF e.expr.exprs = <<>> THEN Err("panic")
                 ELSE IF IsKeywordAtom(e.expr.exprs[1]) THEN MapData_from_expr(e)
                 ELSE IF e.expr.exprs[1].tag = "Atom" THEN ListData_from_expr(e)
                 ELSE Err("InvalidInput")
            ELSE IF e.expr.tag = "Atom" THEN Ok(Value(e.expr.value))
            ELSE Err("InvalidInput")
      [] e.tag = "Atom" ->
            IF e.value.ty = "Symbol" THEN Err("InvalidInput") ELSE Ok(Value(e.value))

\* FromStr::from_str for Data
Data_from_str(p, s) ==
    LET tkn == tokenize(s) IN
    IF tkn = <<>> THEN Err("InvalidInput")
    ELSE LET exp == read_form(p, tkn) IN
         IF ~exp.ok THEN exp ELSE Data_from_expr(exp.expr)

\* the Debug text of a DataError, rendered for a key the table lacks
DataErrorText == <<"D", "a", "t", "a", "E", "r", "r", "o", "r">>

RECURSIVE Data_to_string(_)

\* ExprData::to_string
ExprData_to_string(x) ==
    <<"(">> \o x.name \o <<" ">>
        \o Join([i \in 1..Len(x.rest_args) |->
                    into_tokens(x.rest_args[i].k) \o <<" ">>
                        \o Data_to_string(x.rest_args[i].v)], <<" ">>)
        \o <<")">>

\* ListData::to_string
ListData_to_string(x) ==
    <<"'", "(">> \o Join([i \in 1..Len(x.inner_data) |->
                            Data_to_string(x.inner_data[i])], <<" ">>)
                 \o <<")">>

\* MapData::to_string: the keys in kwrds order, each value looked up in the table
MapData_to_string(x) ==
    <<"'", "(">> \o Join([i \in 1..Len(x.kwrds) |->
                            <<":">> \o x.kwrds[i] \o <<" ">>
                                \o (LET v == DataMap_get(x.map, x.kwrds[i]) IN
                                    IF v.some THEN Data_to_string(v.val)
                                    ELSE DataErrorText)], <<" ">>)
                 \o <<")">>

\* Data::to_string
Data_to_string(x) ==
    CASE x.tag = "Data" -> ExprData_to_string(x)
      [] x.tag = "List" -> ListData_to_string(x)
      [] x.tag = "Map" -> MapData_to_string(x)
      [] x.tag = "Value" -> TypeValue_to_string(x.value)
      [] x.tag = "Error" -> DataErrorText

\* ExprData::get: the index is built on the first call and reused afterwards;
\* the result is the cell after the call and the value returned
ExprData_get(x, k) ==
    LET built == DataMap_new(x.rest_args)
        cell == IF x.inner_map.init THEN x.inner_map
                ELSE IF built.ok THEN FullCell(built.val) ELSE x.inner_map
    IN  IF ~cell.init THEN Err("panic")
        ELSE Ok([self |-> [x EXCEPT !.inner_map = cell],
                 ret |-> DataMap_get(cell.map, k)])

\* GetAbleData::get for Data
Data_get(x, k) ==
    CASE x.tag = "Data" -> ExprData_get(x, k)
      [] x.tag = "Map" -> Ok([self |-> x, ret |-> DataMap_get(x.map, k)])
      [] OTHER -> Ok([self |-> x, ret |-> Nothing])

\* IntoData::into_rpc_data: the integer types widen to i64, Data clones itself
into_rpc_data(x) ==
    IF x.kind = "int" THEN Value(Number(x.n)) ELSE x.data

\* ExprData::new
ExprData_new(name, rest_args) ==
    LET sym == make_symbol(name) IN
    IF ~sym.ok THEN sym ELSE Ok(ExprData(name, rest_args, EmptyCell))

\* Data::new
Data_new(name, kv_pairs) ==
    ExprData_new(name, [i \in 1..Len(kv_pairs) |->
                          [k |-> Atom(Keyword(kv_pairs[i].key)),
                           v |-> into_rpc_data(kv_pairs[i].val)]])

\* Data::from_root_str
Data_from_root_str(s, parser_) ==
    LET p == IF parser_.some THEN parser_.val ELSE Parser_new
        r == Data_from_str(p, s)
    IN  IF ~r.ok THEN r
        ELSE IF r.val.tag = "Data" THEN Ok(r.val)
        ELSE IF r.val.tag = "Error" THEN Err(r.val.err_type)
        ELSE Err("InvalidInput")

(***************************************************************************)
(* Bounds and input pools of the Data scenario                             *)
(***************************************************************************)
MaxPairs == 2

MaxItems == 2

KeyNames == {<<"k">>, <<"j">>}

GetKeys == KeyNames \cup {<<"z">>}

LeafTexts ==
    { <<"1">>, <<"-", "2">>, <<"\"", "s", "\"">>, <<"'", "b">> }

NestedTexts ==
    { <<"(", "a", " ", ":", "k", " ", "1", ")">>,
      <<"'", "(", ":", "k", " ", "1", ")">>,
      <<"'", "(", "1", ")">> }

ValueTexts == LeafTexts \cup NestedTexts

\* all sequences over S of length 0..n
RECURSIVE SeqsUpTo(_, _)
SeqsUpTo(S, n) ==
    IF n = 0 THEN {<<>>}
    ELSE LET shorter == SeqsUpTo(S, n - 1) IN
         shorter \cup {Append(q, x) : q \in {r \in shorter : Len(r) = n - 1}, x \in S}

PairTexts == {<<":">> \o k \o <<" ">> \o v : k \in KeyNames, v \in ValueTexts}

RecordTexts ==
    {<<"(">> \o Join(<<(<<"a">>)>> \o ps, <<" ">>) \o <<")">> :
        ps \in SeqsUpTo(PairTexts, MaxPairs)}

MapTexts ==
    {<<"'", "(">> \o Join(ps, <<" ">>) \o <<")">> :
        ps \in SeqsUpTo(PairTexts, MaxPairs)}

ListTexts ==
    {<<"'", "(">> \o Join(vs, <<" ">>) \o <<")">> :
        vs \in SeqsUpTo(ValueTexts, MaxItems)}

\* texts outside the three shapes: empty, unbalanced, escapes, bare atoms
OddTexts ==
    { <<>>, <<"(">>, <<"a">>, <<" ", "1">>, <<"0", "7">>, <<":", "k">>,
      <<"\"", "\\", "\"", "\"">>, <<"\"", "s", " ", " ", "s", "\"">>,
      <<"(", "a", " ", ":", "k", ")">>, <<"(", "1", " ", ":", "k", " ", "1", ")">>,
      <<"'", "(", ":", "k", " ", "1", " ", ":", "j", ")">>,
      <<"'", "'", "(", "1", ")">>,
      <<" ", "(", "a", " ", ":", "k", " ", "1", ")">>,
      <<"(", "a", " ", ":", "k", " ", "'", "(", ")", ")">> }

InputTexts == RecordTexts \cup MapTexts \cup ListTexts \cup OddTexts

\* arguments of Data::new: text is the wire text expected for the value
NewNames == { <<"a">>, <<"a", "-", "b">>, <<"a", " ", "b">>, <<" ">> }

NewValues ==
    { [kind |-> "int", n |-> 1, text |-> <<"1">>],
      [kind |-> "int", n |-> -20, text |-> <<"-", "2", "0">>],
      [kind |-> "data", data |-> Value(String(<<"s">>)), text |-> <<"\"", "s", "\"">>],
      [kind |-> "data", data |-> ListData(<<Value(Number(3)), Value(Number(105))>>),
       text |-> <<"'", "(", "3", " ", "1", "0", "5", ")">>] }

NewPairs == SeqsUpTo([key : KeyNames, val : NewValues], MaxPairs)

(***************************************************************************)
(* The Data scenario: a caller parses a text or calls Data::new, reads     *)
(* fields with get, serializes the value and parses the serialization.    *)
(***************************************************************************)
IdleData ==
    /\ src = <<>>
    /\ newArgs = None
    /\ d = None
    /\ ser = <<>>
    /\ d2 = None
    /\ getKey = <<>>
    /\ getRes = Nothing
    /\ rootData = None

IdleRead ==
    /\ pieces = <<>>
    /\ input = <<>>
    /\ toks = None
    /\ atom = None
    /\ roots = None
    /\ rootOne = None
    /\ queue = <<>>
    /\ frames = <<>>
    /\ final = None

IdleExpr == form = None /\ decoded = None

IdleLower == decl = None /\ spec = None /\ gen = None /\ code = None

IdleFile ==
    specs = <<>> /\ sym_table = {} /\ calls = <<>> /\ lastRes = None /\ written = None

InitData ==
    /\ parser \in Parsers
    /\ \/ /\ mode = "parse"
          /\ src \in InputTexts
          /\ newArgs = None
       \/ /\ mode = "new"
          /\ src = <<>>
          /\ newArgs \in [name : NewNames, kv_pairs : NewPairs]
    /\ pc = "start"
    /\ d = None
    /\ ser = <<>>
    /\ d2 = None
    /\ getKey = <<>>
    /\ getRes = Nothing
    /\ rootData = None
    /\ IdleRead
    /\ IdleExpr
    /\ IdleLower
    /\ IdleFile

\* let d = Data::from_str(&p, src)
FromStr ==
    /\ mode = "parse" /\ pc = "start"
    /\ d' = Data_from_str(parser, src)
    /\ pc' = "built"
    /\ UNCHANGED <<mode, parser, src, newArgs, ser, d2, getKey, getRes, rootData>>
    /\ UNCHANGED <<readVars, exprVars, lowerVars, fileVars>>

\* let d = Data::new(name, kv_pairs)
DataNew ==
    /\ mode = "new" /\ pc = "start"
    /\ d' = Data_new(newArgs.name, newArgs.kv_pairs)
    /\ pc' = "built"
    /\ UNCHANGED <<mode, parser, src, newArgs, ser, d2, getKey, getRes, rootData>>
    /\ UNCHANGED <<readVars, exprVars, lowerVars, fileVars>>

\* d.get(k)
Get(k) ==
    /\ mode \in {"parse", "new"} /\ pc \in {"built", "got"}
    /\ d.ok
    /\ LET r == Data_get(d.val, k) IN
       /\ r.ok
       /\ d' = Ok(r.val.self)
       /\ getRes' = r.val.ret
    /\ getKey' = k
    /\ pc' = "got"
    /\ UNCHANGED <<mode, parser, src, newArgs, ser, d2, rootData>>
    /\ UNCHANGED <<readVars, exprVars, lowerVars, fileVars>>

\* let ser = d.to_string()
Serialize ==
    /\ mode \in {"parse", "new"} /\ pc = "built"
    /\ d.ok
    /\ ser' = Data_to_string(d.val)
    /\ pc' = "serialized"
    /\ UNCHANGED <<mode, parser, src, newArgs, d, d2, getKey, getRes, rootData>>
    /\ UNCHANGED <<readVars, exprVars, lowerVars, fileVars>>

\* let d2 = Data::from_str(&p, &ser)
Reparse ==
    /\ mode \in {"parse", "new"} /\ pc = "serialized"
    /\ d2' = Data_from_str(parser, ser)
    /\ pc' = "reparsed"
    /\ UNCHANGED <<mode, parser, src, newArgs, d, ser, getKey, getRes, rootData>>
    /\ UNCHANGED <<readVars, exprVars, lowerVars, fileVars>>

\* let rootData = Data::from_root_str(src, Some(&p))
FromRootStr ==
    /\ mode = "parse" /\ pc = "start"
    /\ rootData = None
    /\ rootData' = Data_from_root_str(src, Some(parser))
    /\ UNCHANGED <<mode, parser, pc, src, newArgs, d, ser, d2, getKey, getRes>>
    /\ UNCHANGED <<readVars, exprVars, lowerVars, fileVars>>

NextData ==
    \/ FromStr
    \/ FromRootStr
    \/ DataNew
    \/ \E k \in GetKeys : Get(k)
    \/ Serialize
    \/ Reparse

SpecData == InitData /\ [][NextData]_vars

(***************************************************************************)
(* The reader scenario: a caller writes a text from forms, gaps and other  *)
(* tokens and hands its bytes to the tokenizer and then to parse_root and   *)
(* to parse_root_one.                                                      *)
(***************************************************************************)
MaxPieces == 3

\* a top-level form and the Expr it denotes to the parser self
FormPieces(self) ==
    { [kind |-> "form", text |-> <<"(", ")">>, expr |-> List(<<>>)],
      [kind |-> "form", text |-> <<"(", "a", " ", " ", "1", ")">>,
       expr |-> List(<<Atom(Symbol(<<"a">>)),
                       IF self.read_number_config THEN Atom(Number(1))
                       ELSE Atom(Symbol(<<"1">>))>>)],
      [kind |-> "form",
       text |-> <<"(", "b", "\n", "(", ":", "k", " ", "\"", ")", "\"", ")", "'", "c", ")">>,
       expr |-> List(<<Atom(Symbol(<<"b">>)),
                       List(<<Atom(Keyword(<<"k">>)), Atom(String(<<")">>))>>),
                       Quote(Atom(Symbol(<<"c">>)))>>)] }

\* what the root parsers skip between forms
GapPieces == { [kind |-> "gap", text |-> <<" ">>], [kind |-> "gap", text |-> <<"\n">>] }

\* atom tokens, a closing parenthesis, a two-byte character and a byte that
\* no UTF-8 text holds
OtherPieces ==
    { [kind |-> "other", text |-> <<"8", "4">>],
      [kind |-> "other", text |-> <<"-", "5">>],
      [kind |-> "other", text |-> <<"x", "1">>],
      [kind |-> "other",
       text |-> <<"9","2","2","3","3","7","2","0","3","6","8","5","4","7","7","5","8","0","8">>],
      [kind |-> "other", text |-> <<")">>],
      [kind |-> "other", text |-> <<"C3", "A9">>],
      [kind |-> "other", text |-> <<"FF">>] }

Pieces(self) == FormPieces(self) \cup GapPieces \cup OtherPieces

PieceTexts(ps) == Concat([i \in 1..Len(ps) |-> ps[i].text])

InitRead ==
    /\ mode = "read"
    /\ parser \in Parsers
    /\ pc = "start"
    /\ pieces \in SeqsUpTo(Pieces(parser), MaxPieces)
    /\ input = PieceTexts(pieces)
    /\ toks = None
    /\ atom = None
    /\ roots = None
    /\ rootOne = None
    /\ queue = <<>>
    /\ frames = <<>>
    /\ final = None
    /\ IdleData
    /\ IdleExpr
    /\ IdleLower
    /\ IdleFile

\* let toks = parser.tokenize(input)
Tokenize ==
    /\ mode = "read" /\ toks = None
    /\ toks' = tokenize_unwrap(input)
    /\ UNCHANGED <<mode, parser, pc, pieces, input, atom, roots, rootOne>>
    /\ UNCHANGED <<stepVars, dataVars, exprVars, lowerVars, fileVars>>

\* the reader the router chooses for the front token is the atom reader
ReadAtom ==
    /\ mode = "read" /\ atom = None
    /\ toks.ok /\ toks.val # <<>>
    /\ read_router(Head(toks.val)) = "read_atom"
    /\ atom' = read_atom(parser, toks.val)
    /\ UNCHANGED <<mode, parser, pc, pieces, input, toks, roots, rootOne>>
    /\ UNCHANGED <<stepVars, dataVars, exprVars, lowerVars, fileVars>>

\* let roots = parser.parse_root(input)
ParseRoot ==
    /\ mode = "read" /\ toks # None /\ roots = None
    /\ roots' = parse_root(parser, input)
    /\ UNCHANGED <<mode, parser, pc, pieces, input, toks, atom, rootOne>>
    /\ UNCHANGED <<stepVars, dataVars, exprVars, lowerVars, fileVars>>

\* let rootOne = parser.parse_root_one(input)
ParseRootOne ==
    /\ mode = "read" /\ roots # None /\ rootOne = None
    /\ rootOne' = parse_root_one(parser, input)
    /\ UNCHANGED <<mode, parser, pc, pieces, input, toks, atom, roots>>
    /\ UNCHANGED <<stepVars, dataVars, exprVars, lowerVars, fileVars>>

NextRead == Tokenize \/ ReadAtom \/ ParseRoot \/ ParseRootOne

SpecRead == InitRead /\ [][NextRead]_vars

(***************************************************************************)
(* The text scenario: every text of up to MaxChars characters over the     *)
(* delimiters, the backslash and a letter, and every atom text over signs, *)
(* a digit and a letter, is tokenized; the reader the router chooses for   *)
(* the first token is applied, and the text is handed to the root parsers. *)
(***************************************************************************)
MaxChars == 4

StructureChars == {"(", ")", "'", ":", "\"", " ", "\n", "\\", "a"}

AtomChars == {"+", "-", "5", "a"}

InitText ==
    /\ mode = "text"
    /\ pc = "start"
    /\ \/ parser = Parser_new /\ input \in SeqsUpTo(StructureChars, MaxChars)
       \/ parser \in Parsers /\ input \in SeqsUpTo(AtomChars, MaxChars)
    /\ pieces = <<>>
    /\ toks = None
    /\ atom = None
    /\ roots = None
    /\ rootOne = None
    /\ queue = <<>>
    /\ frames = <<>>
    /\ final = None
    /\ IdleData
    /\ IdleExpr
    /\ IdleLower
    /\ IdleFile

\* let toks = parser.tokenize(input)
TokenizeText ==
    /\ mode = "text" /\ pc = "start"
    /\ toks' = tokenize_unwrap(input)
    /\ pc' = "tokenized"
    /\ UNCHANGED <<mode, parser, pieces, input, atom, roots, rootOne>>
    /\ UNCHANGED <<stepVars, dataVars, exprVars, lowerVars, fileVars>>

\* self.read_router(t)?(self, tokens) for the front token t
ReadFront ==
    /\ mode = "text" /\ pc = "tokenized"
    /\ toks.val # <<>>
    /\ atom' = read_form(parser, toks.val)
    /\ pc' = "read"
    /\ UNCHANGED <<mode, parser, pieces, input, toks, roots, rootOne>>
    /\ UNCHANGED <<stepVars, dataVars, exprVars, lowerVars, fileVars>>

\* let roots = parser.parse_root(input)
ParseRootText ==
    /\ mode = "text"
    /\ pc = "read" \/ (pc = "tokenized" /\ toks.val = <<>>)
    /\ roots' = parse_root(parser, input)
    /\ pc' = "parsed"
    /\ UNCHANGED <<mode, parser, pieces, input, toks, atom, rootOne>>
    /\ UNCHANGED <<stepVars, dataVars, exprVars, lowerVars, fileVars>>

\* let rootOne = parser.parse_root_one(input)
ParseRootOneText ==
    /\ mode = "text" /\ pc = "parsed"
    /\ rootOne' = parse_root_one(parser, input)
    /\ pc' = "parsed one"
    /\ UNCHANGED <<mode, parser, pieces, input, toks, atom, roots>>
    /\ UNCHANGED <<stepVars, dataVars, exprVars, lowerVars, fileVars>>

NextText == TokenizeText \/ ReadFront \/ ParseRootText \/ ParseRootOneText

SpecText == InitText /\ [][NextText]_vars

(***************************************************************************)
(* The stepwise parse: parse_root and parse_root_one run on a token queue  *)
(* one loop iteration at a time.  frames holds the active calls, each with *)
(* its local res and escape; a step is one iteration of the loop of the    *)
(* innermost call, including the entry of a reader it calls up to that     *)
(* reader's own loop and the returns it completes.                         *)
(***************************************************************************)
Frame(fn, res, escape) == [fn |-> fn, res |-> res, escape |-> escape]

Callers(fs) == SubSeq(fs, 1, Len(fs) - 1)

Running(q, fs) == [queue |-> q, frames |-> fs, final |-> None]

Returned(r) == [queue |-> <<>>, frames |-> <<>>, final |-> r]

\* the value r returns to the innermost call of fs: ? passes an error on,
\* read_quote and parse_root_one return at once, the two loops push it
RECURSIVE Deliver(_, _, _)
Deliver(q, fs, r) ==
    IF fs = <<>> THEN Returned(r)
    ELSE LET top == Last(fs) IN
         IF ~r.ok THEN Deliver(q, Callers(fs), r)
         ELSE CASE top.fn = "read_quote" -> Deliver(q, Callers(fs), Ok(Quote(r.val)))
                [] top.fn = "parse_root_one" -> Deliver(q, Callers(fs), r)
                [] top.fn \in {"read_exp", "parse_root"} ->
                      Running(q, Append(Callers(fs),
                                        [top EXCEPT !.res = Append(@, r.val)]))

\* self.read_router(t)?(self, tokens) from the innermost call of fs: the
\* chosen reader is entered; read_keyword and read_atom return in the call
Call(self, q, fs) ==
    LET reader == read_router(Head(q)) IN
    CASE reader \in {"read_exp", "read_quote", "read_string"} ->
            Running(Tail(q), Append(fs, Frame(reader, <<>>, FALSE)))
      [] reader = "read_keyword" ->
            LET r == read_keyword(q) IN
            IF r.ok THEN Deliver(r.rest, fs, Ok(r.expr)) ELSE Deliver(<<>>, fs, r)
      [] reader = "read_atom" ->
            LET r == read_atom(self, q) IN
            IF r.ok THEN Deliver(r.rest, fs, Ok(r.expr)) ELSE Deliver(<<>>, fs, r)

\* one iteration of the loop of parse_root
parse_root_iteration(self, q, fs) ==
    IF q = <<>> THEN Returned(Ok(Last(fs).res))
    ELSE IF Head(q) = <<"(">> THEN Running(Tail(q), Append(fs, Frame("read_exp", <<>>, FALSE)))
    ELSE IF Head(q) \in {<<" ">>, <<"\n">>} THEN Running(Tail(q), fs)
    ELSE Returned(Err("InvalidToken"))

\* one iteration of the loop of parse_root_one
parse_root_one_iteration(self, q, fs) ==
    IF q = <<>> THEN Returned(Err("InvalidToken"))
    ELSE IF Head(q) = <<"(">> THEN Running(Tail(q), Append(fs, Frame("read_exp", <<>>, FALSE)))
    ELSE IF Head(q) \in {<<" ">>, <<"\n">>} THEN Running(Tail(q), fs)
    ELSE Returned(Err("InvalidToken"))

\* the loop of read_exp with a space left in the queue
read_exp_iteration_space_kept(self, q, fs) ==
    IF q = <<>> THEN Deliver(q, Callers(fs), Err("InvalidToken"))
    ELSE IF Head(q) = <<")">> THEN Deliver(Tail(q), Callers(fs), Ok(List(Last(fs).res)))
    ELSE IF Head(q) \in {<<" ">>, <<"\n">>} THEN Running(q, fs)
    ELSE Call(self, q, fs)

\* one iteration of the loop of read_exp
read_exp_iteration(self, q, fs) ==
    IF q = <<>> THEN Deliver(q, Callers(fs), Err("InvalidToken"))
    ELSE IF Head(q) = <<")">> THEN Deliver(Tail(q), Callers(fs), Ok(List(Last(fs).res)))
    ELSE IF Head(q) \in {<<" ">>, <<"\n">>} THEN Running(Tail(q), fs)
    ELSE Call(self, q, fs)

\* read_quote after its pop_front: the reader of the next token is called
read_quote_call(self, q, fs) ==
    IF q = <<>> THEN Deliver(q, Callers(fs), Err("InvalidToken"))
    ELSE Call(self, q, fs)

\* one iteration of the loop of read_string
read_string_iteration(self, q, fs) ==
    IF q = <<>> THEN Deliver(q, Callers(fs), Err("InvalidToken"))
    ELSE LET this_token == Head(q)
             top == Last(fs)
             kept == Append(Callers(fs), [top EXCEPT !.res = @ \o this_token,
                                                     !.escape = FALSE])
         IN  IF top.escape THEN Running(Tail(q), kept)
             ELSE IF this_token = <<"\\">>
             THEN Running(Tail(q), Append(Callers(fs), [top EXCEPT !.escape = TRUE]))
             ELSE IF this_token = <<"\"">>
             THEN Deliver(Tail(q), Callers(fs), Ok(Atom(String(top.res))))
             ELSE Running(Tail(q), kept)

MaxTokens == 4

\* the characters of the texts whose token queues are parsed stepwise
StepChars == {"(", ")", "'", ":", "\"", " ", "\\", "a"}

InitStep ==
    /\ mode = "step"
    /\ parser = Parser_new
    /\ pc \in {"parse_root", "parse_root_one"}
    /\ pieces = <<>>
    /\ input = <<>>
    /\ toks \in {Ok(tokenize(text)) : text \in SeqsUpTo(StepChars, MaxTokens)}
    /\ atom = None
    /\ roots = None
    /\ rootOne = None
    /\ queue = toks.val
    /\ frames = <<Frame(pc, <<>>, FALSE)>>
    /\ final = None
    /\ IdleData
    /\ IdleExpr
    /\ IdleLower
    /\ IdleFile

\* the innermost call is fn and its loop makes the step next
Step(fn, next) ==
    /\ mode = "step"
    /\ final = None
    /\ frames # <<>>
    /\ Last(frames).fn = fn
    /\ queue' = next.queue
    /\ frames' = next.frames
    /\ final' = next.final
    /\ UNCHANGED <<mode, parser, pc, pieces, input, toks, atom, roots, rootOne>>
    /\ UNCHANGED <<dataVars, exprVars, lowerVars, fileVars>>

RootIteration == Step("parse_root", parse_root_iteration(parser, queue, frames))

RootOneIteration == Step("parse_root_one", parse_root_one_iteration(parser, queue, frames))

ListIteration == Step("read_exp", read_exp_iteration(parser, queue, frames))

QuoteCall == Step("read_quote", read_quote_call(parser, queue, frames))

StringIteration == Step("read_string", read_string_iteration(parser, queue, frames))

NextStep ==
    \/ RootIteration
    \/ RootOneIteration
    \/ ListIteration
    \/ QuoteCall
    \/ StringIteration

SpecStep == InitStep /\ [][NextStep]_vars

\* the parser is one sequential computation: it takes its next step
\* whenever it has one
SpecStepFair == SpecStep /\ WF_vars(NextStep)

(***************************************************************************)
(* Name translations and the GeneratedStruct layer                         *)
(***************************************************************************)
LowerChars ==
    <<"a", "b", "c", "d", "e", "f", "g", "h", "i", "j", "k", "l", "m",
      "n", "o", "p", "q", "r", "s", "t", "u", "v", "w", "x", "y", "z">>

UpperChars ==
    <<"A", "B", "C", "D", "E", "F", "G", "H", "I", "J", "K", "L", "M",
      "N", "O", "P", "Q", "R", "S", "T", "U", "V", "W", "X", "Y", "Z">>

\* char::to_ascii_uppercase
to_ascii_uppercase(c) ==
    IF \E i \in 1..26 : LowerChars[i] = c
    THEN UpperChars[CHOOSE i \in 1..26 : LowerChars[i] = c]
    ELSE c

\* str::split('-'): the segments between the separators, empty ones included
RECURSIVE split_loop(_, _, _, _)
split_loop(s, i, seg, segs) ==
    IF i > Len(s) THEN Append(segs, seg)
    ELSE IF s[i] = "-" THEN split_loop(s, i + 1, <<>>, Append(segs, seg))
    ELSE split_loop(s, i + 1, Append(seg, s[i]), segs)

split(s) == split_loop(s, 1, <<>>, <<>>)

kebab_to_pascal_case(s) ==
    LET segs == split(s) IN
    Concat([i \in 1..Len(segs) |->
               IF segs[i] = <<>> THEN <<>>
               ELSE <<to_ascii_uppercase(segs[i][1])>> \o Tail(segs[i])])

kebab_to_snake_case(s) == [i \in 1..Len(s) |-> IF s[i] = "-" THEN "_" ELSE s[i]]

type_translate(sym) ==
    LET pascal == kebab_to_pascal_case(sym) IN
    IF pascal = <<"N", "u", "m", "b", "e", "r">> THEN <<"i", "6", "4">> ELSE pascal

\* GeneratedField::new
GeneratedField_new(key_name, field_type, comment) ==
    [name |-> kebab_to_snake_case(key_name),
     field_type |-> type_translate(field_type),
     comment |-> comment,
     key_name |-> key_name]

\* GeneratedStruct::new
GeneratedStruct_new(data_name, derived_traits, fields, comment, ty) ==
    [name |-> kebab_to_pascal_case(data_name),
     derived_traits |-> derived_traits,
     fields |-> fields,
     comment |-> comment,
     data_name |-> data_name,
     rpc_type |-> ty]

(***************************************************************************)
(* IDL decoder: DefMsg and DefRPC                                          *)
(***************************************************************************)
def_msg == <<"d", "e", "f", "-", "m", "s", "g">>

def_rpc == <<"d", "e", "f", "-", "r", "p", "c">>

list_sym == <<"l", "i", "s", "t">>

DefMsg(msg_name, rest_expr, msg_ty) ==
    [kind |-> "DefMsg", msg_name |-> msg_name, rest_expr |-> rest_expr, msg_ty |-> msg_ty]

DefRPC(rpc_name, args, return_value) ==
    [kind |-> "DefRPC", rpc_name |-> rpc_name, args |-> args,
     return_value |-> return_value]

\* DefMsg::new
DefMsg_new(msg_name, rest_expr, ty) ==
    IF \A c \in 1..(Len(rest_expr) \div 2) : IsKeywordAtom(rest_expr[2 * c - 1])
    THEN Ok(DefMsg(msg_name, rest_expr, ty))
    ELSE Err("InvalidInput")

\* the head test shared by if_def_msg_expr and if_def_rpc_expr; e[0] of an
\* empty list is out of bounds
head_is(expr, sym) ==
    IF expr.tag # "List" THEN Ok(FALSE)
    ELSE IF expr.exprs = <<>> THEN Err("panic")
    ELSE Ok(IsSymbolAtom(expr.exprs[1]) /\ expr.exprs[1].value.s = sym)

if_def_msg_expr(expr) == head_is(expr, def_msg)

if_def_rpc_expr(expr) == head_is(expr, def_rpc)

\* DefMsg::from_expr
DefMsg_from_expr(expr) ==
    LET is == if_def_msg_expr(expr) IN
    IF ~is.ok THEN is
    ELSE IF ~is.val THEN Err("InvalidInput")
    ELSE LET rest_expr == Tail(expr.exprs) IN
         IF rest_expr = <<>> THEN Err("panic")
         ELSE IF ~IsSymbolAtom(rest_expr[1]) THEN Err("InvalidInput")
         ELSE DefMsg_new(rest_expr[1].value.s, Tail(rest_expr), "Data")

RECURSIVE de_quoted(_)
de_quoted(e) == IF e.tag = "Quote" THEN de_quoted(e.expr) ELSE e

\* DefRPC::from_expr
DefRPC_from_expr(expr) ==
    LET is == if_def_rpc_expr(expr) IN
    IF ~is.ok THEN is
    ELSE IF ~is.val THEN Err("InvalidInput")
    ELSE LET rest_expr == Tail(expr.exprs) IN
         IF rest_expr = <<>> THEN Err("panic")
         ELSE IF ~IsSymbolAtom(rest_expr[1]) THEN Err("InvalidInput")
         ELSE IF Len(rest_expr) < 2 THEN Err("panic")
         ELSE LET arguments == de_quoted(rest_expr[2]) IN
              IF arguments.tag # "List" THEN Err("InvalidInput")
              ELSE IF Len(rest_expr) < 3
                   THEN Ok(DefRPC(rest_expr[1].value.s, arguments.exprs, Nothing))
              ELSE IF rest_expr[3].tag = "Quote" /\ IsSymbolAtom(rest_expr[3].expr)
                   THEN Ok(DefRPC(rest_expr[1].value.s, arguments.exprs,
                                  Some(rest_expr[3].expr.value.s)))
              ELSE Err("InvalidInput")

def_rpc_package ==
    <<"d", "e", "f", "-", "r", "p", "c", "-", "p", "a", "c", "k", "a", "g", "e">>

DefPkg(pkg_name) == [kind |-> "DefPkg", pkg_name |-> pkg_name]

if_def_pkg_expr(expr) == head_is(expr, def_rpc_package)

\* DefPkg::from_expr
DefPkg_from_expr(expr) ==
    LET is == if_def_pkg_expr(expr) IN
    IF ~is.ok THEN is
    ELSE IF ~is.val THEN Err("InvalidInput")
    ELSE LET rest_expr == Tail(expr.exprs) IN
         IF rest_expr = <<>> THEN Err("panic")
         ELSE IF ~IsSymbolAtom(rest_expr[1]) THEN Err("InvalidInput")
         ELSE Ok(DefPkg(rest_expr[1].value.s))

(***************************************************************************)
(* Struct lowerer                                                          *)
(***************************************************************************)
IsQuotedSymbol(e) == e.tag = "Quote" /\ IsSymbolAtom(e.expr)

\* the pattern Expr::Quote(box Expr::List(inner_exprs)) | Expr::List(inner_exprs)
IsListOrQuotedList(e) ==
    e.tag = "List" \/ (e.tag = "Quote" /\ e.expr.tag = "List")

inner_exprs(e) == IF e.tag = "List" THEN e.exprs ELSE e.expr.exprs

\* self.msg_name.to_string() + "-" + f
new_msg_name(parent, f) == parent \o <<"-">> \o f

\* the list type named after the untranslated symbol
new_type_name_raw(t) == <<"V", "e", "c", "<">> \o t \o <<">">>

\* format!("Vec<{}>", type_translate(t))
new_type_name(t) == <<"V", "e", "c", "<">> \o type_translate(t) \o <<">">>

\* res.append(&mut ...create_gen_structs()?) for an anonymous message
append_structs(res, more) == res \o more

\* the struct of the declaration placed ahead of its auxiliary structs
push_struct_front(res, st) == <<st>> \o res

\* res.push(GeneratedStruct::new(...)) after the loop over the fields
push_struct(res, st) == Append(res, st)

RECURSIVE DefMsg_create_gen_structs(_)
RECURSIVE DefMsg_fields_loop(_, _, _, _)

\* the loop of DefMsg::create_gen_structs over the key/value chunks
DefMsg_fields_loop(self, i, res, fields) ==
    IF i + 1 > Len(self.rest_expr) THEN Ok([res |-> res, fields |-> fields])
    ELSE LET k == self.rest_expr[i]
             v == self.rest_expr[i + 1]
         IN
         IF IsKeywordAtom(k) /\ IsQuotedSymbol(v)
         THEN DefMsg_fields_loop(self, i + 2, res,
                  Append(fields, GeneratedField_new(k.value.s, v.expr.value.s, Nothing)))
         ELSE IF IsKeywordAtom(k) /\ IsListOrQuotedList(v)
         THEN LET inner == inner_exprs(v) IN
              IF Len(inner) < 2 THEN Err("panic")
              ELSE IF IsKeywordAtom(inner[1])
              THEN LET name == new_msg_name(self.msg_name, k.value.s)
                       anon == DefMsg_new(name, inner, "Map")
                       more == IF anon.ok THEN DefMsg_create_gen_structs(anon.val)
                               ELSE anon
                   IN  IF ~more.ok THEN more
                       ELSE DefMsg_fields_loop(self, i + 2,
                                append_structs(res, more.val),
                                Append(fields, GeneratedField_new(k.value.s, name, Nothing)))
              ELSE IF /\ IsSymbolAtom(inner[1])
                      /\ IsQuotedSymbol(inner[2])
                      /\ inner[1].value.s = list_sym
              THEN DefMsg_fields_loop(self, i + 2, res,
                       Append(fields,
                              GeneratedField_new(k.value.s,
                                                 new_type_name(inner[2].expr.value.s),
                                                 Nothing)))
              ELSE Err("InvalidInput")
         ELSE Err("InvalidInput")

\* DefMsg::create_gen_structs
DefMsg_create_gen_structs(self) ==
    LET r == DefMsg_fields_loop(self, 1, <<>>, <<>>) IN
    IF ~r.ok THEN r
    ELSE Ok(push_struct(r.val.res,
                GeneratedStruct_new(self.msg_name, Nothing, r.val.fields, Nothing,
                                    self.msg_ty)))

\* the loop of DefRPC::create_gen_structs over the key/value chunks
RECURSIVE DefRPC_fields_loop(_, _, _, _)
DefRPC_fields_loop(self, i, res, fields) ==
    IF i + 1 > Len(self.args) THEN Ok([res |-> res, fields |-> fields])
    ELSE LET field == self.args[i]
             ty == self.args[i + 1]
         IN
         IF IsKeywordAtom(field) /\ IsQuotedSymbol(ty)
         THEN DefRPC_fields_loop(self, i + 2, res,
                  Append(fields,
                         GeneratedField_new(field.value.s, ty.expr.value.s, Nothing)))
         ELSE IF IsKeywordAtom(field) /\ IsListOrQuotedList(ty)
         THEN LET name == new_msg_name(self.rpc_name, field.value.s)
                  anon == DefMsg_new(name, inner_exprs(ty), "Map")
                  more == IF anon.ok THEN DefMsg_create_gen_structs(anon.val) ELSE anon
              IN  IF ~more.ok THEN more
                  ELSE DefRPC_fields_loop(self, i + 2,
                           append_structs(res, more.val),
                           Append(fields,
                                  GeneratedField_new(field.value.s, name, Nothing)))
         ELSE Err("InvalidInput")

\* DefRPC::create_gen_structs
DefRPC_create_gen_structs(self) ==
    LET r == DefRPC_fields_loop(self, 1, <<>>, <<>>) IN
    IF ~r.ok THEN r
    ELSE Ok(push_struct(r.val.res,
                GeneratedStruct_new(self.rpc_name, Nothing, r.val.fields, Nothing,
                                    "Data")))

(***************************************************************************)
(* Rendering of the lowered structs.  A tera::Context is a function from   *)
(* the inserted keys to their values.  A rendered template is recorded as  *)
(* the template's name with the Context it was rendered from; the text a   *)
(* declaration generates is the sequence of its rendered templates, joined *)
(* by the separator "\n\n".                                                *)
(***************************************************************************)
Context_new == <<>>

\* Context::insert: a value inserted under a key replaces the earlier one
Context_insert(ctx, key, val) ==
    [k \in DOMAIN ctx \cup {key} |-> IF k = key THEN val ELSE ctx[k]]

\* insert_template that inserts data_name whatever the rpc_type is
insert_template_with_data_name(self, ctx) ==
    LET named == Context_insert(ctx, "name", self.name)
        fielded == Context_insert(named, "fields", self.fields)
        data_named == Context_insert(fielded, "data_name", self.data_name)
    IN  CASE self.rpc_type = "Map" -> Context_insert(data_named, "ty", <<"m", "a", "p">>)
          [] self.rpc_type = "List" -> Context_insert(data_named, "ty", <<"l", "i", "s", "t">>)
          [] self.rpc_type = "Data" -> Context_insert(data_named, "ty", <<"d", "a", "t", "a">>)

\* GeneratedStruct::insert_template
insert_template(self, ctx) ==
    LET named == Context_insert(ctx, "name", self.name)
        fielded == Context_insert(named, "fields", self.fields)
    IN  CASE self.rpc_type = "Map" -> Context_insert(fielded, "ty", <<"m", "a", "p">>)
          [] self.rpc_type = "List" -> Context_insert(fielded, "ty", <<"l", "i", "s", "t">>)
          [] self.rpc_type = "Data" ->
                Context_insert(Context_insert(fielded, "data_name", self.data_name),
                               "ty", <<"d", "a", "t", "a">>)

\* the template file stems collected into all_temps and handed to
\* tera.add_template_files, which fails when a file cannot be read
add_template_files(template_files) ==
    IF template_files.readable THEN Ok(template_files.stems) ELSE Err("template")

\* tera.render(name, &context)
render(tera, name, context) ==
    IF name \in tera THEN Ok([template |-> name, context |-> context])
    ELSE Err("render")

\* for s in self.create_gen_structs()? { s.insert_template(&mut context); ... }
\* with the one context created before the loop
RECURSIVE render_structs_loop(_, _, _, _, _)
render_structs_loop(structs, i, tera, context, bucket) ==
    IF i > Len(structs) THEN Ok(bucket)
    ELSE LET inserted == insert_template(structs[i], context)
             def_struct == render(tera, "def_struct.rs", inserted)
             rpc_impl == render(tera, "rpc_impl", inserted)
         IN  IF ~def_struct.ok THEN def_struct
             ELSE IF ~rpc_impl.ok THEN rpc_impl
             ELSE render_structs_loop(structs, i + 1, tera, inserted,
                                      bucket \o << <<def_struct.val>>, <<rpc_impl.val>> >>)

\* DefMsg::gen_code_with_files
DefMsg_gen_code_with_files(self, template_files) ==
    LET tera == add_template_files(template_files) IN
    IF ~tera.ok THEN tera
    ELSE LET structs == DefMsg_create_gen_structs(self) IN
         IF ~structs.ok THEN structs
         ELSE LET bucket == render_structs_loop(structs.val, 1, tera.val, Context_new, <<>>)
              IN  IF ~bucket.ok THEN bucket ELSE Ok(Join(bucket.val, <<"\n\n">>))

\* DefRPC::gen_code_with_files
DefRPC_gen_code_with_files(self, template_files) ==
    LET tera == add_template_files(template_files) IN
    IF ~tera.ok THEN tera
    ELSE LET structs == DefRPC_create_gen_structs(self) IN
         IF ~structs.ok THEN structs
         ELSE LET bucket == render_structs_loop(structs.val, 1, tera.val, Context_new, <<>>)
              IN  IF ~bucket.ok THEN bucket ELSE Ok(Join(bucket.val, <<"\n\n">>))

(***************************************************************************)
(* The lowering scenario: a declaration Expr is decoded by from_expr and   *)
(* lowered by create_gen_structs.                                          *)
(***************************************************************************)
MaxFields == 2

Sym(s) == Atom(Symbol(s))

Kw(s) == Atom(Keyword(s))

QSym(s) == Quote(Sym(s))

string_sym == <<"s", "t", "r", "i", "n", "g">>

number_sym == <<"n", "u", "m", "b", "e", "r">>

DeclNames == { <<"p">>, number_sym }

FieldKeys == { <<"f">>, <<"-">> }

TypeSyms == { string_sym, <<"t", "-", "u">> }

\* forms a field value can hold: list types, keyword-pair forms (one nested
\* in another), bare and quoted, and values that are neither
FieldForms ==
    { List(<<Sym(list_sym), QSym(<<"t", "-", "u">>)>>),
      Quote(List(<<Sym(list_sym), QSym(string_sym)>>)),
      List(<<Kw(<<"g">>), QSym(number_sym)>>),
      Quote(List(<<Kw(<<"g">>), QSym(number_sym), Kw(<<"h">>), QSym(string_sym)>>)),
      List(<<Kw(<<"g">>),
             Quote(List(<<Kw(<<"h">>), List(<<Sym(list_sym), QSym(string_sym)>>)>>))>>),
      List(<<Sym(<<"x">>), QSym(string_sym)>>) }

FieldValues ==
    {QSym(t) : t \in TypeSyms} \cup FieldForms \cup {Atom(Number(1))}

FieldPairs == {<<Kw(k), v>> : k \in FieldKeys, v \in FieldValues}

FieldLists == {Concat(ps) : ps \in SeqsUpTo(FieldPairs, MaxFields)}

DeclExprs ==
    {List(<<Sym(def_msg), Sym(n)>> \o fs) : n \in DeclNames, fs \in FieldLists}
        \cup {List(<<Sym(def_rpc), Sym(n), List(fs)>>) :
                 n \in DeclNames, fs \in FieldLists}
        \cup {List(<<Sym(def_rpc), Sym(n), Quote(List(fs)), QSym(<<"r">>)>>) :
                 n \in DeclNames, fs \in FieldLists}

InitLower ==
    /\ mode = "lower"
    /\ parser = Parser_new
    /\ pc = "start"
    /\ decl \in DeclExprs
    /\ spec = None
    /\ gen = None
    /\ code = None
    /\ IdleData
    /\ IdleRead
    /\ IdleExpr
    /\ IdleFile

\* DefRPC::if_def_rpc_expr, DefMsg::if_def_msg_expr and from_expr as the
\* spec-file reader applies them
Decode ==
    /\ mode = "lower" /\ pc = "start"
    /\ spec' = LET rpc == if_def_rpc_expr(decl) IN
               IF ~rpc.ok THEN rpc
               ELSE IF rpc.val THEN DefRPC_from_expr(decl)
               ELSE DefMsg_from_expr(decl)
    /\ pc' = "decoded"
    /\ UNCHANGED <<mode, parser, decl, gen, code, dataVars, readVars, exprVars, fileVars>>

\* spec.create_gen_structs()
Lower ==
    /\ mode = "lower" /\ pc = "decoded"
    /\ spec.ok
    /\ gen' = IF spec.val.kind = "DefMsg" THEN DefMsg_create_gen_structs(spec.val)
              ELSE DefRPC_create_gen_structs(spec.val)
    /\ pc' = "lowered"
    /\ UNCHANGED <<mode, parser, decl, spec, code, dataVars, readVars, exprVars, fileVars>>

\* the template files a caller passes: all templates, only one of them, or
\* a file that cannot be read
TemplateFiles ==
    { [stems |-> {"def_struct.rs", "rpc_impl", "Cargo.toml"}, readable |-> TRUE],
      [stems |-> {"def_struct.rs", "Cargo.toml"}, readable |-> TRUE],
      [stems |-> {"def_struct.rs", "rpc_impl", "Cargo.toml"}, readable |-> FALSE] }

\* spec.gen_code_with_files(template_files)
GenCodeWithFiles(template_files) ==
    /\ mode = "lower" /\ pc = "lowered"
    /\ code' = IF spec.val.kind = "DefMsg"
               THEN DefMsg_gen_code_with_files(spec.val, template_files)
               ELSE DefRPC_gen_code_with_files(spec.val, template_files)
    /\ pc' = "rendered"
    /\ UNCHANGED <<mode, parser, decl, spec, gen, dataVars, readVars, exprVars, fileVars>>

NextLower ==
    \/ Decode
    \/ Lower
    \/ \E template_files \in TemplateFiles : GenCodeWithFiles(template_files)

SpecLower == InitLower /\ [][NextLower]_vars

(***************************************************************************)
(* The decoder scenario: a caller hands an Expr to one of the from_expr    *)
(* constructors of the Data layer and of the IDL declarations.            *)
(***************************************************************************)
MaxElements == 3

\* the elements of the forms: a symbol, a keyword, a number, a quoted symbol,
\* a keyword-pair list, the quoted empty list and a list under two quotes
Elements ==
    { Sym(<<"a">>), Kw(<<"k">>), Atom(Number(1)), QSym(<<"b">>),
      List(<<Kw(<<"k">>), QSym(<<"b">>)>>),
      Quote(List(<<>>)),
      Quote(Quote(List(<<Kw(<<"k">>), QSym(<<"b">>)>>))) }

ElementLists == SeqsUpTo(Elements, MaxElements)

Heads == {def_msg, def_rpc, def_rpc_package}

Forms ==
    {List(es) : es \in ElementLists}
        \cup {Quote(List(es)) : es \in ElementLists}
        \cup {List(<<Sym(h)>> \o es) : h \in Heads, es \in ElementLists}

InitExpr ==
    /\ mode = "decode"
    /\ parser = Parser_new
    /\ pc = "start"
    /\ form \in Forms
    /\ decoded = None
    /\ IdleData
    /\ IdleRead
    /\ IdleLower
    /\ IdleFile

\* the caller applies the from_expr named by to: pc records which one
FromExpr(to, result) ==
    /\ mode = "decode" /\ pc = "start"
    /\ decoded' = result
    /\ pc' = to
    /\ UNCHANGED <<mode, parser, form, dataVars, readVars, lowerVars, fileVars>>

DataFromExpr == FromExpr("Data", Data_from_expr(form))

RecordFromExpr == FromExpr("ExprData", ExprData_from_expr(form))

MapFromExpr == FromExpr("MapData", MapData_from_expr(form))

DefMsgFromExpr == FromExpr("DefMsg", DefMsg_from_expr(form))

DefRPCFromExpr == FromExpr("DefRPC", DefRPC_from_expr(form))

DefPkgFromExpr == FromExpr("DefPkg", DefPkg_from_expr(form))

NextExpr ==
    \/ DataFromExpr
    \/ RecordFromExpr
    \/ MapFromExpr
    \/ DefMsgFromExpr
    \/ DefRPCFromExpr
    \/ DefPkgFromExpr

SpecExpr == InitExpr /\ [][NextExpr]_vars

(***************************************************************************)
(* SpecFile                                                                *)
(***************************************************************************)
MaxCalls == 3

SymbolNames == { <<"f", "o", "o">>, <<"b", "a", "r">> }

\* the declarations handed to record_one: a kind and a symbol_name()
Declarations == [kind : {"DefMsg", "DefRPC", "DefPkg"}, symbol_name : SymbolNames]

\* record_one without the insertion into the table
sym_table_insert_dropped(table, sym_name) == table

\* self.sym_table.insert(sym_name, true)
sym_table_insert(table, sym_name) == table \cup {sym_name}

\* SpecFile::record_one: the declaration is pushed before the table is looked up
record_one(self, decl_) ==
    LET sym_name == decl_.symbol_name
        pushed == [self EXCEPT !.specs = Append(self.specs, decl_)]
    IN  IF sym_name \in pushed.sym_table
        THEN [self |-> pushed, res |-> Err("already have")]
        ELSE [self |-> [pushed EXCEPT !.sym_table = sym_table_insert(@, sym_name)],
              res |-> Ok("unit")]

InitFile ==
    /\ mode = "file"
    /\ parser = Parser_new
    /\ pc = "start"
    /\ specs = <<>>
    /\ sym_table = {}
    /\ calls = <<>>
    /\ lastRes = None
    /\ written = None
    /\ IdleData
    /\ IdleRead
    /\ IdleExpr
    /\ IdleLower

\* specs.record_one(Box::new(decl_)), while the spec file is being read
RecordOne(decl_) ==
    /\ mode = "file" /\ pc # "written"
    /\ Len(calls) < MaxCalls
    /\ LET r == record_one([specs |-> specs, sym_table |-> sym_table], decl_) IN
       /\ specs' = r.self.specs
       /\ sym_table' = r.self.sym_table
       /\ lastRes' = r.res
    /\ calls' = Append(calls, decl_.symbol_name)
    /\ pc' = "recorded"
    /\ UNCHANGED <<mode, parser, written, dataVars, readVars, exprVars, lowerVars>>

\* TargetFile of a DefMsg: the library source file
DefMsg_file_target(self) == "Lib"

\* TargetFile of a DefRPC: the library source file
DefRPC_file_target(self) == "Lib"

\* impl RPCSpec for DefPkg: file_target
DefPkg_file_target(self) == "Cargo"

\* s.file_target()
file_target(self) ==
    CASE self.kind = "DefMsg" -> DefMsg_file_target(self)
      [] self.kind = "DefRPC" -> DefRPC_file_target(self)
      [] self.kind = "DefPkg" -> DefPkg_file_target(self)

\* bucket.join("\n\n")
join_bucket(bucket) ==
    IF ~bucket.ok THEN bucket ELSE Ok(Join(bucket.val, <<"\n\n">>))

\* the rendered structs of one declaration joined by blank lines, or the
\* error of the lowering or of the rendering
render_structs(structs, templates) ==
    IF ~structs.ok THEN structs
    ELSE join_bucket(render_structs_loop(structs.val, 1, templates, Context_new, <<>>))

\* DefMsg rendered with a prepared Tera: its structs rendered in order, each
\* by def_struct then rpc_impl.  The declarations of this scenario have no
\* fields.
DefMsg_gen_code_with_tera(self, templates) ==
    render_structs(DefMsg_create_gen_structs(DefMsg(self.symbol_name, <<>>, "Data")),
                   templates)

\* DefRPC rendered with a prepared Tera
DefRPC_gen_code_with_tera(self, templates) ==
    render_structs(DefRPC_create_gen_structs(DefRPC(self.symbol_name, <<>>, Nothing)),
                   templates)

\* DefPkg::gen_code_with_tera
DefPkg_gen_code_with_tera(self, templates) ==
    LET context == Context_insert(Context_new, "package_name", self.symbol_name)
        text == render(templates, "Cargo.toml", context)
    IN  IF ~text.ok THEN text ELSE Ok(<<text.val>>)

\* s.gen_code_with_tera(&tera)
gen_code_with_tera(self, templates) ==
    CASE self.kind = "DefMsg" -> DefMsg_gen_code_with_tera(self, templates)
      [] self.kind = "DefRPC" -> DefRPC_gen_code_with_tera(self, templates)
      [] self.kind = "DefPkg" -> DefPkg_gen_code_with_tera(self, templates)

\* one arm of the match with the package content replaced by each package
\* declaration instead of extended
match_file_target_cargo_replaced(acc, s, text) ==
    IF file_target(s) = "Lib"
    THEN [acc EXCEPT !.lib_content = @ \o text]
    ELSE [acc EXCEPT !.lib_name = Some(s.symbol_name), !.cargo_content = text]

\* match s.file_target() { TargetFile::Lib => ..., TargetFile::Cargo => ... }
match_file_target(acc, s, text) ==
    IF file_target(s) = "Lib"
    THEN [acc EXCEPT !.lib_content = @ \o text]
    ELSE [acc EXCEPT !.lib_name = Some(s.symbol_name), !.cargo_content = @ \o text]

\* what the loop does with the code generated for specs_[i]
RECURSIVE file_targets_loop(_, _, _, _)
file_targets_next(specs_, i, tera, acc, text) ==
    IF ~text.ok THEN text
    ELSE file_targets_loop(specs_, i + 1, tera,
                           match_file_target(acc, specs_[i], text.val))

\* for s in &self.specs { match s.file_target() { ... } }
file_targets_loop(specs_, i, tera, acc) ==
    IF i > Len(specs_) THEN Ok(acc)
    ELSE file_targets_next(specs_, i, tera, acc, gen_code_with_tera(specs_[i], tera))

\* the end of gen_code_to_file: the directory named after the package, then
\* the two files opened and written
write_contents(contents, creatable) ==
    IF ~contents.ok THEN contents
    ELSE IF ~contents.val.lib_name.some THEN Err("no lib name")
    ELSE IF ~creatable THEN Err("io")
    ELSE Ok([lib_name |-> contents.val.lib_name.val,
             lib_content |-> contents.val.lib_content,
             cargo_content |-> contents.val.cargo_content])

\* the loop of gen_code_to_file run with the Tera the template files gave
with_tera(self, creatable, tera) ==
    IF ~tera.ok THEN tera
    ELSE write_contents(file_targets_loop(self.specs, 1, tera.val,
                            [lib_name |-> Nothing, lib_content |-> <<>>,
                             cargo_content |-> <<>>]),
                        creatable)

\* SpecFile::gen_code_to_file: the contents appended to src/lib.rs and to
\* Cargo.toml under the directory lib_name; creatable tells whether the
\* directories and the two files can be created and opened
gen_code_to_file(self, creatable, templates) ==
    with_tera(self, creatable, add_template_files(templates))

\* specs.gen_code_to_file(output_path, templates), once the file is read
GenCodeToFile(creatable, templates) ==
    /\ mode = "file" /\ pc # "written"
    /\ written' = gen_code_to_file([specs |-> specs, sym_table |-> sym_table],
                                   creatable, templates)
    /\ pc' = "written"
    /\ UNCHANGED <<mode, parser, specs, sym_table, calls, lastRes,
                   dataVars, readVars, exprVars, lowerVars>>

NextFile ==
    \/ \E decl_ \in Declarations : RecordOne(decl_)
    \/ \E creatable \in BOOLEAN, templates \in TemplateFiles :
           GenCodeToFile(creatable, templates)

SpecFile == InitFile /\ [][NextFile]_vars

(***************************************************************************)
(* Properties of the Data layer                                            *)
(***************************************************************************)
\* the Expr that Data::from_str read from src
SourceForm == read_form(parser, tokenize(src)).expr

\* C1: for every Data value d obtained by parsing a text, parsing d.to_string()
\* with the same parser succeeds and yields a value structurally equal to d.
C1_RoundTrip ==
    (mode = "parse" /\ pc = "reparsed") => (d2.ok /\ d2.val = d.val)

\* the value of the first field, in field order, whose key is Keyword(k)
FirstField(fields, k) ==
    LET hits == {i \in 1..Len(fields) : fields[i].k = Atom(Keyword(k))} IN
    IF hits = {} THEN Nothing
    ELSE Some(fields[CHOOSE i \in hits : \A j \in hits : i <= j].v)

\* C2: Record.get(k) returns the value of the first field whose key is
\* Keyword(k), and nothing when no field has that key, also when a keyword
\* occurs more than once.
C2_GetReturnsFirst ==
    (mode \in {"parse", "new"} /\ pc = "got" /\ d.val.tag = "Data")
        => getRes = FirstField(d.val.rest_args, getKey)

\* C9: the serialization of a Map built from '(:k1 v1 ... :kn vn) renders the
\* pairs in source order, each key followed by the serialization of the value
\* that followed it in the source form.
C9_MapKeepsSourcePairs ==
    (mode = "parse" /\ pc = "serialized" /\ d.val.tag = "Map")
        => LET ee == SourceForm.expr.exprs IN
           Len(ee) % 2 = 0
               => ser = <<"'", "(">>
                          \o Join([c \in 1..(Len(ee) \div 2) |->
                                      <<":">> \o ee[2 * c - 1].value.s \o <<" ">>
                                          \o Data_to_string(Data_from_expr(ee[2 * c]).val)],
                                  <<" ">>)
                          \o <<")">>

\* C10: Data::new fails with CorruptData when the name contains a space; with
\* no space it returns a Record of that name whose serialization, for one or
\* more pairs, is (name :k1 v1 ... :kn vn) with the pairs in the order given.
C10_DataNew ==
    (mode = "new" /\ pc # "start")
        => IF Contains(newArgs.name, " ")
           THEN ~d.ok /\ d.err = "CorruptData"
           ELSE /\ d.ok
                /\ d.val.tag = "Data"
                /\ d.val.name = newArgs.name
                /\ (pc = "serialized" /\ Len(newArgs.kv_pairs) >= 1)
                       => ser = <<"(">> \o newArgs.name \o <<" ">>
                                  \o Join([i \in 1..Len(newArgs.kv_pairs) |->
                                              <<":">> \o newArgs.kv_pairs[i].key \o <<" ">>
                                                  \o newArgs.kv_pairs[i].val.text],
                                          <<" ">>)
                                  \o <<")">>

\* a Record built by Data::new from two pairs has been serialized
C10_Witness ==
    /\ mode = "new" /\ pc = "serialized"
    /\ newArgs.name = <<"a", "-", "b">>
    /\ Len(newArgs.kv_pairs) = 2
    /\ newArgs.kv_pairs[1].val.kind = "data"
    /\ newArgs.kv_pairs[2].val.text = <<"-", "2", "0">>

(***************************************************************************)
(* Properties of SpecFile                                                  *)
(***************************************************************************)
\* C3: a record_one call returns an error exactly when its symbol name equals
\* the symbol name passed to an earlier call on the same SpecFile.
C3_ErrorIffSeenBefore ==
    (mode = "file" /\ calls # <<>>)
        => (lastRes.ok <=> ~\E i \in 1..(Len(calls) - 1) : calls[i] = Last(calls))

\* a third call repeats the name of a second call that itself was rejected
C3_Witness ==
    /\ mode = "file" /\ Len(calls) = 3
    /\ calls[1] = calls[2] /\ calls[2] = calls[3]
    /\ ~lastRes.ok

\* C4: after any sequence of record_one calls, succeeded or failed, the
\* declarations the SpecFile contains have pairwise distinct symbol names.
C4_ContainedNamesDistinct ==
    mode = "file"
        => \A i, j \in 1..Len(specs) :
              i # j => specs[i].symbol_name # specs[j].symbol_name

(***************************************************************************)
(* Properties of the struct lowerer                                        *)
(***************************************************************************)
\* the key/value sequence and the name of the decoded declaration
DeclFields == IF spec.val.kind = "DefMsg" THEN spec.val.rest_expr ELSE spec.val.args

DeclName == IF spec.val.kind = "DefMsg" THEN spec.val.msg_name ELSE spec.val.rpc_name

Lowered == mode = "lower" /\ pc = "lowered"

\* a keyword-pair form (:k1 v1 ... :kn vn), quoted or bare
IsPairForm(v) ==
    /\ IsListOrQuotedList(v)
    /\ Len(inner_exprs(v)) >= 2
    /\ Len(inner_exprs(v)) % 2 = 0
    /\ \A c \in 1..(Len(inner_exprs(v)) \div 2) : IsKeywordAtom(inner_exprs(v)[2 * c - 1])

\* the form (list 'T), quoted or bare
IsListForm(v) ==
    /\ IsListOrQuotedList(v)
    /\ Len(inner_exprs(v)) = 2
    /\ inner_exprs(v)[1] = Sym(list_sym)
    /\ IsQuotedSymbol(inner_exprs(v)[2])

ListFormType(v) == inner_exprs(v)[2].expr.value.s

\* the fields of the runtime library's own types: String, i64 and Vec of them
PrimitiveTypes == { <<"S", "t", "r", "i", "n", "g">>, <<"i", "6", "4">> }

VecOf(t) == <<"V", "e", "c", "<">> \o t \o <<">">>

IsPrimitive(ft) == ft \in PrimitiveTypes \/ \E t \in PrimitiveTypes : ft = VecOf(t)

\* the symbols written as 'T anywhere in an Expr
RECURSIVE QuotedSymbols(_)
QuotedSymbols(e) ==
    CASE e.tag = "Atom" -> {}
      [] e.tag = "Quote" ->
            IF IsSymbolAtom(e.expr) THEN {e.expr.value.s} ELSE QuotedSymbols(e.expr)
      [] e.tag = "List" -> UNION {QuotedSymbols(e.exprs[i]) : i \in 1..Len(e.exprs)}

IsNamedType(ft) ==
    \E t \in QuotedSymbols(decl) : ft = type_translate(t) \/ ft = VecOf(type_translate(t))

\* C5 as stated: every field_type of every element is a primitive translation
\* or the name of an element at a strictly earlier position.
C5_PrimitiveOrEarlier ==
    (Lowered /\ gen.ok)
        => \A i \in 1..Len(gen.val) : \A c \in 1..Len(gen.val[i].fields) :
              LET ft == gen.val[i].fields[c].field_type IN
              IsPrimitive(ft) \/ \E j \in 1..(i - 1) : gen.val[j].name = ft

\* C5 amended: every field_type of every element is a primitive, the
\* translation of a type symbol the declaration quotes (or a Vec of it), or the
\* name of an element at a strictly earlier position.
C5_NamedOrEarlier ==
    (Lowered /\ gen.ok)
        => \A i \in 1..Len(gen.val) : \A c \in 1..Len(gen.val[i].fields) :
              LET ft == gen.val[i].fields[c].field_type IN
              IsPrimitive(ft) \/ IsNamedType(ft)
                  \/ \E j \in 1..(i - 1) : gen.val[j].name = ft

\* a declaration with a form nested in a form was lowered to three structs and
\* the last one refers to the one before it
C5_Witness ==
    /\ Lowered /\ gen.ok
    /\ Len(gen.val) = 3
    /\ gen.val[3].fields[1].field_type = gen.val[2].name
    /\ gen.val[2].fields[1].field_type = gen.val[1].name
    /\ gen.val[3].name = <<"P">>

\* the auxiliary structs of the pair forms among the chunks of exprs, for the
\* struct at position pidx that was lowered from the form named parent
RECURSIVE AuxiliaryPlaced(_, _, _, _)
AuxiliaryPlaced(structs, parent, exprs, pidx) ==
    \A c \in 1..(Len(exprs) \div 2) :
        IsPairForm(exprs[2 * c])
            => \E j \in 1..(pidx - 1) :
                  /\ structs[j].data_name = parent \o <<"-">> \o exprs[2 * c - 1].value.s
                  /\ structs[j].rpc_type = "Map"
                  /\ structs[pidx].fields[c].field_type = structs[j].name
                  /\ AuxiliaryPlaced(structs, structs[j].data_name,
                                     inner_exprs(exprs[2 * c]), j)

\* C6: each field :f holding a keyword-pair form yields an auxiliary struct
\* parent-f with rpc_type Map placed before the struct of parent, which keeps
\* rpc_type Data and whose field f has the auxiliary struct's name as its
\* field_type; recursively for the forms nested in the form.
C6_AuxiliaryStructs ==
    (Lowered /\ gen.ok)
        => /\ Last(gen.val).data_name = DeclName
           /\ Last(gen.val).rpc_type = "Data"
           /\ AuxiliaryPlaced(gen.val, DeclName, DeclFields, Len(gen.val))

\* the number of auxiliary structs the pair forms of exprs call for
RECURSIVE AuxiliaryCount(_, _)
AuxiliaryCount(exprs, c) ==
    IF c > Len(exprs) \div 2 THEN 0
    ELSE AuxiliaryCount(exprs, c + 1)
            + (IF IsPairForm(exprs[2 * c])
               THEN 1 + AuxiliaryCount(inner_exprs(exprs[2 * c]), 1)
               ELSE 0)

\* every value of the declaration is a quoted type symbol or a list form
OnlySymbolsAndLists ==
    \A c \in 1..(Len(DeclFields) \div 2) :
        IsQuotedSymbol(DeclFields[2 * c]) \/ IsListForm(DeclFields[2 * c])

\* the list-form fields of the lowered declaration have the type Vec<translate(T)>
\* in its struct, and the sequence holds its struct and the auxiliary structs
\* of its pair forms only
ListFieldsLowered ==
    /\ OnlySymbolsAndLists => gen.ok
    /\ gen.ok =>
          /\ \A c \in 1..(Len(DeclFields) \div 2) :
                IsListForm(DeclFields[2 * c])
                    => Last(gen.val).fields[c].field_type
                         = <<"V", "e", "c", "<">>
                              \o type_translate(ListFormType(DeclFields[2 * c]))
                              \o <<">">>
          /\ Len(gen.val) = 1 + AuxiliaryCount(DeclFields, 1)

HasListField == \E c \in 1..(Len(DeclFields) \div 2) : IsListForm(DeclFields[2 * c])

\* C7: in a lowered DefMsg each field holding (list 'T), quoted or bare, is a
\* field of type Vec<translate(T)> of the message's struct and adds no
\* auxiliary struct.
C7_MsgListField ==
    (Lowered /\ spec.val.kind = "DefMsg" /\ HasListField) => ListFieldsLowered

\* a DefMsg with a bare and a quoted list field was lowered to one struct
C7_Witness ==
    /\ Lowered /\ spec.val.kind = "DefMsg" /\ gen.ok
    /\ Len(DeclFields) = 4
    /\ DeclFields[2].tag = "List" /\ IsListForm(DeclFields[2])
    /\ DeclFields[4].tag = "Quote" /\ IsListForm(DeclFields[4])
    /\ Len(gen.val) = 1

\* C8: in a lowered DefRpc each argument holding (list 'T), quoted or bare, is
\* a field of type Vec<translate(T)> of the rpc's struct, lowering succeeds and
\* the argument adds no auxiliary struct.
C8_RpcListField ==
    (Lowered /\ spec.val.kind = "DefRPC" /\ HasListField) => ListFieldsLowered

(***************************************************************************)
(* Properties of the tokenizer and the root parsers                        *)
(***************************************************************************)
\* an optional sign followed by one or more decimal digits
IsSignedDecimal(t) ==
    LET body == IF t # <<>> /\ t[1] \in {"+", "-"} THEN Tail(t) ELSE t IN
    body # <<>> /\ \A i \in 1..Len(body) : body[i] \in {"0","1","2","3","4","5","6","7","8","9"}

\* the decimal text of the integer a signed decimal denotes
CanonicalDecimal(t) ==
    LET body == StripZeros(IF t[1] \in {"+", "-"} THEN Tail(t) ELSE t) IN
    IF t[1] = "-" /\ body # <<"0">> THEN <<"-">> \o body ELSE body

DenotesI64(t) == IsSignedDecimal(t) /\ FitsI64(t[1] = "-", IF t[1] \in {"+", "-"} THEN Tail(t) ELSE t)

\* C11: with read_number=false the atom reader returns Symbol(token) for every
\* atom token, all-digit tokens included; with read_number=true it returns
\* Number(n) for a token that denotes the signed 64-bit integer n and
\* Symbol(token) for every other token.
C11_AtomReader ==
    (mode = "read" /\ atom # None)
        => LET token == Head(toks.val) IN
           /\ atom.ok
           /\ IF parser.read_number_config /\ DenotesI64(token)
              THEN /\ atom.expr.tag = "Atom"
                   /\ atom.expr.value.ty = "Number"
                   /\ I64ToString(atom.expr.value.n) = CanonicalDecimal(token)
              ELSE atom.expr = Atom(Symbol(token))

\* with read_number=false the all-digit token 84 was read as a Symbol
C11_Witness ==
    /\ mode = "read" /\ atom # None /\ atom.ok
    /\ ~parser.read_number_config
    /\ Head(toks.val) = <<"8", "4">>
    /\ atom.expr = Atom(Symbol(<<"8", "4">>))

\* the bytes with every space that follows a space removed
RECURSIVE CollapseSpaces(_, _)
CollapseSpaces(bytes, i) ==
    IF i > Len(bytes) THEN <<>>
    ELSE IF bytes[i] = " " /\ i > 1 /\ bytes[i - 1] = " " THEN CollapseSpaces(bytes, i + 1)
    ELSE <<bytes[i]>> \o CollapseSpaces(bytes, i + 1)

\* C12: for every input byte string the concatenation of the tokens tokenize
\* returns is the input with every run of spaces replaced by one space.
C12_TokensJoin ==
    (mode = "read" /\ toks # None)
        => toks.ok /\ Concat(toks.val) = CollapseSpaces(input, 1)

\* the Exprs of the form pieces, in the order of the text
RECURSIVE FormsOf(_)
FormsOf(ps) ==
    IF ps = <<>> THEN <<>>
    ELSE (IF ps[1].kind = "form" THEN <<ps[1].expr>> ELSE <<>>) \o FormsOf(Tail(ps))

\* the input was split into tokens
Tokenized == tokenize_unwrap(input).ok

\* C15: parse_root returns the top-level forms in source order, one Expr::List
\* per form, skipping the spaces and newlines between them, and returns
\* InvalidToken and no forms when a top-level position holds another token.
C15_ParseRoot ==
    (mode = "read" /\ roots # None /\ Tokenized)
        => IF \A i \in 1..Len(pieces) : pieces[i].kind # "other"
           THEN roots = Ok(FormsOf(pieces))
           ELSE roots = Err("InvalidToken")

\* two forms with a gap between them were returned in order
C15_Witness ==
    /\ mode = "read" /\ roots # None /\ roots.ok
    /\ Len(pieces) = 3
    /\ pieces[1].kind = "form" /\ pieces[2].kind = "gap" /\ pieces[3].kind = "form"
    /\ pieces[1].expr # pieces[3].expr
    /\ roots.val = <<pieces[1].expr, pieces[3].expr>>

\* the position of the first piece that is not a gap, 0 when there is none
FirstNonGap(ps) ==
    IF \A i \in 1..Len(ps) : ps[i].kind = "gap" THEN 0
    ELSE CHOOSE i \in 1..Len(ps) :
            ps[i].kind # "gap" /\ \A j \in 1..(i - 1) : ps[j].kind = "gap"

\* C16: parse_root_one returns the first top-level form, the Expr parse_root
\* returns first, whatever tokens follow it, and fails with InvalidToken on an
\* input that is empty or holds spaces and newlines only.
C16_ParseRootOne ==
    (mode = "read" /\ rootOne # None /\ Tokenized)
        => LET k == FirstNonGap(pieces) IN
           /\ k = 0 => rootOne = Err("InvalidToken")
           /\ (k > 0 /\ pieces[k].kind = "form") => rootOne = Ok(pieces[k].expr)
           /\ (roots # None /\ roots.ok /\ roots.val # <<>>) => rootOne = Ok(roots.val[1])

\* the first form was returned although a closing parenthesis follows it
C16_Witness ==
    /\ mode = "read" /\ rootOne # None /\ rootOne.ok
    /\ Len(pieces) = 3
    /\ pieces[1].kind = "gap" /\ pieces[2].kind = "form"
    /\ pieces[3].text = <<")">>
    /\ rootOne.val = pieces[2].expr

(***************************************************************************)
(* Properties of the from_expr constructors                                *)
(***************************************************************************)
Convertible(e) == Data_from_expr(e).ok

\* C13: Data construction from Quote(List(inner)) returns a Map when the first
\* element of inner is a Keyword atom and a List for every other inner list,
\* whatever its first element and its length are.
C13_QuotedListShape ==
    (mode = "decode" /\ pc = "Data" /\ form.tag = "Quote" /\ form.expr.tag = "List")
        => LET inner == form.expr.exprs
               keyed == inner # <<>> /\ IsKeywordAtom(inner[1])
           IN  /\ decoded.ok => decoded.val.tag = (IF keyed THEN "Map" ELSE "List")
               /\ (~keyed /\ \A i \in 1..Len(inner) : Convertible(inner[i])) => decoded.ok
               /\ (/\ keyed
                   /\ Len(inner) % 2 = 0
                   /\ \A c \in 1..(Len(inner) \div 2) :
                         IsKeywordAtom(inner[2 * c - 1]) /\ Convertible(inner[2 * c]))
                      => decoded.ok

\* C14: Record construction from Expr::List(elems) succeeds exactly when elems
\* is non-empty, has odd length, starts with a Symbol atom, has a Keyword atom
\* at every key position and a value convertible to Data at every value
\* position; in every other case it returns an InvalidInput error.
C14_RecordFromList ==
    (mode = "decode" /\ pc = "ExprData" /\ form.tag = "List")
        => LET elems == form.exprs
               wellFormed ==
                   /\ elems # <<>>
                   /\ Len(elems) % 2 = 1
                   /\ IsSymbolAtom(elems[1])
                   /\ \A c \in 1..((Len(elems) - 1) \div 2) :
                         IsKeywordAtom(elems[2 * c]) /\ Convertible(elems[2 * c + 1])
           IN  IF wellFormed
               THEN /\ decoded.ok
                    /\ decoded.val.tag = "Data"
                    /\ decoded.val.name = elems[1].value.s
                    /\ Len(decoded.val.rest_args) = (Len(elems) - 1) \div 2
               ELSE decoded = Err("InvalidInput")

\* C17: Data::from_root_str returns Ok only with a Record; it returns the
\* Record when the text holds one top-level form that converts to a Record,
\* and an error when the form converts to another Data or the text cannot be
\* parsed or converted.
C17_FromRootStr ==
    (mode = "parse" /\ rootData # None)
        => LET top == parse_root(parser, src) IN
           /\ rootData.ok => rootData.val.tag = "Data"
           /\ ~rootData.ok => rootData.err # "panic"
           /\ (top.ok /\ Len(top.val) = 1 /\ ExprData_from_expr(top.val[1]).ok)
                 => rootData = ExprData_from_expr(top.val[1])

\* the form handed to the decoder is a list headed by the symbol h
HeadedBy(h) == form.tag = "List" /\ form.exprs # <<>> /\ form.exprs[1] = Sym(h)

\* what follows the head
Arguments == Tail(form.exprs)

\* C18: DefMsg::from_expr succeeds exactly on (def-msg NAME k1 v1 ... kn vn)
\* with NAME a Symbol and every k a Keyword; every other form headed by
\* def-msg gives an InvalidInput error and no DefMsg.
C18_DefMsgFromExpr ==
    (mode = "decode" /\ pc = "DefMsg" /\ HeadedBy(def_msg))
        => LET wellFormed ==
                   /\ Arguments # <<>>
                   /\ IsSymbolAtom(Arguments[1])
                   /\ (Len(Arguments) - 1) % 2 = 0
                   /\ \A c \in 1..((Len(Arguments) - 1) \div 2) :
                         IsKeywordAtom(Arguments[2 * c])
           IN  IF wellFormed
               THEN decoded = Ok(DefMsg(Arguments[1].value.s, Tail(Arguments), "Data"))
               ELSE decoded = Err("InvalidInput")

\* the Expr under all the quote layers of e
RECURSIVE Unquoted(_)
Unquoted(e) == IF e.tag = "Quote" THEN Unquoted(e.expr) ELSE e

\* C19: DefRPC::from_expr succeeds exactly on (def-rpc NAME ARGS) and
\* (def-rpc NAME ARGS 'RET) with NAME a Symbol, ARGS a list under any number
\* of quote layers and RET a Symbol; args is then the list without its quote
\* layers and return_value is RET or absent; every other form headed by
\* def-rpc gives an InvalidInput error and no DefRPC.
C19_DefRPCFromExpr ==
    (mode = "decode" /\ pc = "DefRPC" /\ HeadedBy(def_rpc))
        => LET wellFormed ==
                   /\ Len(Arguments) \in {2, 3}
                   /\ IsSymbolAtom(Arguments[1])
                   /\ Unquoted(Arguments[2]).tag = "List"
                   /\ Len(Arguments) = 3
                         => Arguments[3].tag = "Quote" /\ IsSymbolAtom(Arguments[3].expr)
           IN  IF wellFormed
               THEN decoded = Ok(DefRPC(Arguments[1].value.s,
                                        Unquoted(Arguments[2]).exprs,
                                        IF Len(Arguments) = 3
                                        THEN Some(Arguments[3].expr.value.s)
                                        ELSE Nothing))
               ELSE decoded = Err("InvalidInput")

\* C20: DefPkg::from_expr succeeds exactly on (def-rpc-package NAME) with one
\* argument that is a Symbol, giving pkg_name = NAME; every other form headed
\* by def-rpc-package gives an InvalidInput error.
C20_DefPkgFromExpr ==
    (mode = "decode" /\ pc = "DefPkg" /\ HeadedBy(def_rpc_package))
        => IF Len(Arguments) = 1 /\ IsSymbolAtom(Arguments[1])
           THEN decoded = Ok(DefPkg(Arguments[1].value.s))
           ELSE decoded = Err("InvalidInput")

(***************************************************************************)
(* Properties of the rendering of lowered structs                          *)
(***************************************************************************)
TyOf(rpc_type) ==
    CASE rpc_type = "Map" -> <<"m", "a", "p">>
      [] rpc_type = "List" -> <<"l", "i", "s", "t">>
      [] rpc_type = "Data" -> <<"d", "a", "t", "a">>

\* the context a template of the struct s has to be rendered from: the
\* struct's own name, fields and ty, and its data_name exactly for ty data
OwnContext(s, context) ==
    /\ DOMAIN context =
           {"name", "fields", "ty"} \cup
               (IF s.rpc_type = "Data" THEN {"data_name"} ELSE {})
    /\ context["name"] = s.name
    /\ context["fields"] = s.fields
    /\ context["ty"] = TyOf(s.rpc_type)
    /\ s.rpc_type = "Data" => context["data_name"] = s.data_name

Rendered == mode = "lower" /\ pc = "rendered" /\ code.ok

\* C27: at every render of a GeneratedStruct while code is generated for a
\* DefMsg or DefRpc, the template context holds that struct's own name and
\* fields, ty is map, list or data according to rpc_type, data_name is
\* present exactly when ty is data, and nothing inserted for a struct
\* rendered earlier in the same call is still visible.
C27_RenderContext ==
    Rendered =>
        /\ Len(code.val) = 4 * Len(gen.val) - 1
        /\ \A i \in 1..Len(gen.val) :
              /\ code.val[4 * i - 3].template = "def_struct.rs"
              /\ OwnContext(gen.val[i], code.val[4 * i - 3].context)
              /\ code.val[4 * i - 1].template = "rpc_impl"
              /\ OwnContext(gen.val[i], code.val[4 * i - 1].context)

\* an rpc whose auxiliary Map struct is rendered before its own Data struct
C27_Witness ==
    /\ Rendered
    /\ Len(gen.val) >= 2
    /\ gen.val[1].rpc_type = "Map"
    /\ Last(gen.val).rpc_type = "Data"
    /\ spec.val.kind = "DefRPC"

\* C30: when every record_one call for the declarations of a spec file
\* succeeded, the GeneratedStructs obtained by lowering all of its DefMsg and
\* DefRpc declarations have pairwise distinct names: no auxiliary struct
\* parent-f has the name of a declared message or rpc, or of another
\* auxiliary struct.  Stated for a spec file of one declaration, whose
\* record_one call succeeds.
C30_StructNamesDistinct ==
    (mode = "lower" /\ gen.ok) =>
        \A i, j \in 1..Len(gen.val) : i # j => gen.val[i].name # gen.val[j].name

(***************************************************************************)
(* Properties of gen_code_to_file                                          *)
(***************************************************************************)
\* the rendered outputs of the recorded declarations of the given kinds,
\* concatenated in recorded order
RECURSIVE OutputsOf(_, _, _)
OutputsOf(specs_, kinds, templates) ==
    IF specs_ = <<>> THEN <<>>
    ELSE (IF Head(specs_).kind \in kinds
          THEN gen_code_with_tera(Head(specs_), templates).val
          ELSE <<>>)
         \o OutputsOf(Tail(specs_), kinds, templates)

AllTemplates == {"def_struct.rs", "rpc_impl", "Cargo.toml"}

Written == mode = "file" /\ pc = "written" /\ written.ok

\* C21: gen_code_to_file builds the library content as the concatenation, in
\* recorded order, of the rendered output of exactly the declarations whose
\* target is the library file (DefMsg, DefRpc), and the manifest content
\* from exactly the declarations whose target is the manifest (DefPkg); no
\* declaration's output goes to both sinks or to neither.
C21_ContentsByTarget ==
    Written =>
        /\ written.val.lib_content = OutputsOf(specs, {"DefMsg", "DefRPC"}, AllTemplates)
        /\ written.val.cargo_content = OutputsOf(specs, {"DefPkg"}, AllTemplates)
        /\ Len(written.val.lib_content) + Len(written.val.cargo_content)
               = Len(OutputsOf(specs, {"DefMsg", "DefRPC", "DefPkg"}, AllTemplates))

\* two package declarations with a message between them have been written
C21_Witness ==
    /\ Written
    /\ Len(specs) = 3
    /\ specs[1].kind = "DefPkg" /\ specs[2].kind = "DefMsg" /\ specs[3].kind = "DefPkg"
    /\ written.val.lib_content # <<>>

(***************************************************************************)
(* Properties of the readers on arbitrary texts                            *)
(***************************************************************************)
\* the string literal a text starts with, scanned from position i: its
\* content with every escaping backslash removed and the character after
\* it kept, and the text after its closing quote
RECURSIVE ScanLiteral(_, _, _)
ScanLiteral(text, i, content) ==
    IF i > Len(text) THEN Nothing
    ELSE IF text[i] = "\\"
    THEN IF i = Len(text) THEN Nothing
         ELSE ScanLiteral(text, i + 2, Append(content, text[i + 1]))
    ELSE IF text[i] = "\""
    THEN Some([content |-> content, rest |-> Drop(text, i)])
    ELSE ScanLiteral(text, i + 1, Append(content, text[i]))

FrontRead == mode = "text" /\ atom # None

\* C22: for every string literal (an opening quote, a content in which every
\* quote is immediately preceded by a backslash, a closing quote) the string
\* reader returns a String atom whose text is the content with each escaping
\* backslash removed and the character after it kept verbatim, wherever in
\* the content the backslash stands, and stops at the first unescaped quote.
C22_StringReader ==
    (FrontRead /\ input[1] = "\"")
        => LET literal == ScanLiteral(input, 2, <<>>) IN
           literal.some
               => atom = Read(Atom(String(literal.val.content)),
                              tokenize(literal.val.rest))

\* the number of occurrences of the character c in a text
RECURSIVE Count(_, _)
Count(text, c) ==
    IF text = <<>> THEN 0
    ELSE (IF Head(text) = c THEN 1 ELSE 0) + Count(Tail(text), c)

\* the texts of the atoms of the given types anywhere inside an Expr
RECURSIVE TextsIn(_, _)
TextsIn(e, types) ==
    CASE e.tag = "Atom" ->
            IF e.value.ty \in types THEN {e.value.s} ELSE {}
      [] e.tag = "Quote" -> TextsIn(e.expr, types)
      [] e.tag = "List" ->
            UNION {TextsIn(e.exprs[i], types) : i \in 1..Len(e.exprs)}

\* the texts of the atoms of the given types in what the root parsers returned
ReturnedTexts(types) ==
    (IF roots.ok THEN UNION {TextsIn(roots.val[i], types) : i \in 1..Len(roots.val)}
     ELSE {})
        \cup (IF rootOne.ok THEN TextsIn(rootOne.val, types) ELSE {})

\* a text with no string literal in it
Plain(text) == ~Contains(text, "\"") /\ ~Contains(text, "\\")

\* C23: parsing fails with InvalidToken whenever the input ends before a form
\* is complete (an unclosed list, a quote or a colon with nothing after it)
\* and whenever a closing parenthesis stands anywhere other than as the
\* closer of an open list; no parenthesis, space, newline or double quote
\* token is ever taken as the text of a Symbol or Keyword atom.
C23_InvalidToken ==
    (mode = "text" /\ roots # None)
        => /\ (/\ Plain(input)
               /\ \/ Count(input, "(") # Count(input, ")")
                  \/ input # <<>> /\ Last(input) \in {"'", ":"})
                  => roots = Err("InvalidToken")
           /\ ReturnedTexts({"Symbol", "Keyword"})
                  \cap {<<")">>, <<"(">>, <<" ">>, <<"\n">>, <<"\"">>} = {}

\* an optional minus sign followed by one or more decimal digits
IsMinusDecimal(t) ==
    LET body == IF t # <<>> /\ t[1] = "-" THEN Tail(t) ELSE t IN
    body # <<>> /\ \A i \in 1..Len(body) : IsDigit(body[i])

\* C24: with read_number=true an atom token is read as a Number exactly when
\* it consists of an optional minus sign followed by one or more decimal
\* digits (and the value fits in signed 64 bits); an atom token of every
\* other shape is read as a Symbol.
C24_NumberShape ==
    (/\ FrontRead
     /\ parser.read_number_config
     /\ \A i \in 1..Len(input) : input[i] \in AtomChars)
        => /\ atom.ok
           /\ atom.expr.tag = "Atom"
           /\ IF IsMinusDecimal(input)
              THEN atom.expr.value.ty = "Number"
              ELSE atom.expr.value = Symbol(input)

\* C25: every Symbol atom anywhere inside an Expr returned by parse_root or
\* parse_root_one, for any input text, has a text that contains no space.
\* (The Record names of Data::new are covered by make_symbol.)
C25_SymbolsHaveNoSpace ==
    mode = "text" => \A text \in ReturnedTexts({"Symbol"}) : ~Contains(text, " ")

(***************************************************************************)
(* Properties of Map construction and of keyed access                      *)
(***************************************************************************)
\* C26: every Map that MapData::from_expr returns for a quoted list of length
\* n has a key sequence of length n/2 (twice the number of keys equals n) and
\* a table whose key set is exactly the set of keys in that sequence; a
\* quoted list for which this cannot hold is rejected with an error.
C26_MapShape ==
    (mode = "decode" /\ pc = "MapData" /\ decoded.ok)
        => LET kwrds == decoded.val.kwrds IN
           /\ form.tag = "Quote" /\ form.expr.tag = "List"
           /\ 2 * Len(kwrds) = Len(form.expr.exprs)
           /\ DOMAIN decoded.val.map = {kwrds[i] : i \in 1..Len(kwrds)}

\* C29: keyed access does not change a Record's observable value: two Records
\* built from the same text compare equal and serialize to the same text
\* after any sequence of get calls on either.  The Record d has been read
\* with get; the other Record is built from the same text and never read.
C29_GetKeepsValue ==
    (mode = "parse" /\ pc = "got" /\ d.val.tag = "Data")
        => LET other == Data_from_str(parser, src) IN
           /\ other.ok
           /\ d.val = other.val
           /\ Data_to_string(d.val) = Data_to_string(other.val)

(***************************************************************************)
(* Termination of the root parsers                                         *)
(***************************************************************************)
\* a step removes at least one token from the queue or returns from a call
ConsumesOrReturns ==
    \/ Len(queue') < Len(queue)
    \/ Len(frames') < Len(frames)
    \/ final' # None

\* the stepwise parse returns what the root parser returns for the queue
StepAgrees ==
    (mode = "step" /\ final # None)
        => final = IF pc = "parse_root" THEN parse_root_loop(parser, toks.val, <<>>)
                   ELSE parse_root_one_loop(parser, toks.val)

\* C28: parse_root and parse_root_one terminate on every finite token
\* sequence with either a result or an error: each iteration of the
\* top-level loop, of the list reader loop and of the string reader loop,
\* and each call of the quote, keyword and atom readers, removes at least
\* one token from the queue or returns.
C28_Terminates ==
    /\ [][mode = "step" => ConsumesOrReturns]_vars
    /\ mode = "step" => <>(final # None)

\* parse_root returned the list ('a): the top-level loop, the list loop, the
\* quote reader and the atom reader have all run
C28_Witness ==
    /\ mode = "step" /\ pc = "parse_root"
    /\ final = Ok(<<List(<<Quote(Atom(Symbol(<<"a">>)))>>)>>)

====
